---- MODULE Spec2Model ----
(***************************************************************************)
(* Model of the anvil YAML loader (klapptnot/anvil): the chunked lexer,     *)
(* the recursive-descent tree builder with anchors, aliases and merge      *)
(* keys, the reference-counted node heap and the string arena.             *)
(*                                                                         *)
(* The file under parse is a sequence of one-character strings.  The       *)
(* parser state of the C code (YamlParser, YamlStore, the malloc'd nodes)  *)
(* is one record, yp, threaded through operators that are translated       *)
(* function by function from the source.  parser_error() and die() never   *)
(* return: they are modelled by setting yp.err, after which every          *)
(* operator is the identity.                                               *)
(***************************************************************************)
EXTENDS Integers, Sequences, FiniteSets, TLC

VARIABLES file, junk, src, pc, yp, root, got, report

vars == <<file, junk, src, pc, yp, root, got, report>>

(***************************************************************************)
(* Program constants and model bounds.                                     *)
(***************************************************************************)
YAML_CHUNK_SIZE == 4096
HEAP_VALUE_MIN_SIZE == 8
Z3_VECTOR_INITIAL_CAPACITY == 16
\* STR_ALLOC_SIZE_BASE and MAX_NUMBER_LENGTH are set in a header that is not
\* part of the sources; they are scaled to values the documents can reach.
STR_ALLOC_SIZE_BASE == 8
MAX_NUMBER_LENGTH == 6
\* strlen(filepath): the path is stored in the first arena buffer.
PathLen == 3

UINT16 == 65536
\* A uint32_t or unsigned int is held as the integer with the same 32 bits
\* (two's complement): 0xFFFFFFFF is -1.
INT32_MAX == 2147483647
U32IncStuck(x) == x
U32DecStuck(x) == x
U32Inc(x) == IF x = INT32_MAX THEN -INT32_MAX - 1 ELSE x + 1
U32Dec(x) == IF x = -INT32_MAX - 1 THEN INT32_MAX ELSE x - 1
\* x > 0 and x >= n (0 <= n <= INT32_MAX) as unsigned comparisons
U32Pos(x) == x # 0
U32Ge(x, n) == x < 0 \/ x >= n

Min(a, b) == IF a < b THEN a ELSE b
Max(a, b) == IF a > b THEN a ELSE b
RECURSIVE SumSeq(_)
SumSeq(q) == IF q = <<>> THEN 0 ELSE Head(q) + SumSeq(Tail(q))

(***************************************************************************)
(* enum YamlChar, and the <ctype.h> classes over the model's alphabet.     *)
(***************************************************************************)
CHAR_EOF == "NUL"
CHAR_NEWLINE == "\n"
CHAR_SPACE == " "
CHAR_TAB == "\t"
CHAR_COLON == ":"
CHAR_HASH == "#"
CHAR_QUOTE_SINGLE == "'"
CHAR_QUOTE_DOUBLE == "\""
CHAR_OPEN_BRACKET == "["
CHAR_CLOSE_BRACKET == "]"
CHAR_OPEN_BRACE == "{"
CHAR_CLOSE_BRACE == "}"
CHAR_COMMA == ","
CHAR_AMPERSAND == "&"
CHAR_ASTERISK == "*"
CHAR_BACKSLASH == "\\"
\* An indeterminate byte: stack or heap memory read before it was written.
UNINIT == "UNINIT"

Digits == {"0", "1", "2", "3", "4", "5", "6", "7", "8", "9"}
Letters == {"a", "b", "c", "d", "e", "f", "g", "h", "i", "j", "k", "l", "m",
            "n", "o", "p", "q", "r", "s", "t", "u", "v", "w", "x", "y", "z"}

isdigit(c) == c \in Digits
isalnum(c) == c \in Digits \cup Letters
is_number_parseable(c) == isdigit(c) \/ c = "." \/ c = "-" \/ c = "+"
is_valid_anchor(c) == isalnum(c) \/ c = "_" \/ c = "-"
is_valid_delim(c) ==
    c \in {CHAR_SPACE, CHAR_NEWLINE, CHAR_COMMA, CHAR_CLOSE_BRACE, CHAR_CLOSE_BRACKET}

DigitVal(c) ==
    CASE c = "0" -> 0 [] c = "1" -> 1 [] c = "2" -> 2 [] c = "3" -> 3
      [] c = "4" -> 4 [] c = "5" -> 5 [] c = "6" -> 6 [] c = "7" -> 7
      [] c = "8" -> 8 [] c = "9" -> 9

(***************************************************************************)
(* Errors.  kind "none" is a running parser; the YamlErrorKind names are   *)
(* exits through parser_error(); "DIE" is die(); "SEGV" is a crash on a    *)
(* null pointer.                                                           *)
(***************************************************************************)
NoErr == [kind |-> "none", exp |-> "", got |-> "", text |-> <<>>]
Ok(p) == p.err.kind = "none"
\* p.raised is history: one record per call of parser_error, with the number
\* of tokens read, the read position and the number of nodes at the call.
Raise(p, k) ==
    Append(p.raised, [kind |-> k, ntok |-> p.ntok, pos |-> p.fpos - p.blen + p.cpos,
                      nodes |-> Len(p.heap)])
parser_error_exits_zero(p, k, e, g) ==
    IF Ok(p)
    THEN [p EXCEPT !.err = [kind |-> k, exp |-> e, got |-> g, text |-> <<>>], !.raised = Raise(p, k)]
    ELSE p
\* The report is written and the process ends in exit (EXIT_FAILURE); the
\* search for the line before the error line reads in front of the input
\* when the error is on the first line, which may end the process on a signal.
parser_error(p, k, e, g) ==
    IF Ok(p)
    THEN [p EXCEPT !.err = [kind |-> k, exp |-> e, got |-> g, text |-> <<>>],
                   !.raised = Raise(p, k),
                   !.status = IF p.junk = "trap" THEN "SIGSEGV" ELSE "EXIT_FAILURE"]
    ELSE p
\* parser_error with .got = token.raw: the report names the text read at the
\* token's pointer.
parser_error_at(p, k, raw) ==
    IF Ok(p) THEN [parser_error(p, k, "", "token.raw") EXCEPT !.err.text = raw] ELSE p

(***************************************************************************)
(* Tokens.  raw is a pointer into the string arena (or null), length the  *)
(* uint32_t length field.                                                  *)
(***************************************************************************)
create_token(k, v, l) == [kind |-> k, raw |-> v, length |-> l]
NoToken == create_token("TOKEN_UNKNOWN", [vec |-> "null", idx |-> 0, gen |-> 0, off |-> 0], 0)

\* The parser's functions call one another (parse_value, parse_list and
\* parse_map recursively) through call, defined after them.
RECURSIVE call(_, _, _)

(***************************************************************************)
(* Chunked input.                                                          *)
(***************************************************************************)
\* A read that returns 0 bytes.  p.idle counts them; a loop that never sees
\* the end of the file makes the count grow without bound, and the parser
\* that has made MaxIdleReads of them is taken to run forever ("HANG").
MaxIdleReads == 12
Hang(p) ==
    [p EXCEPT !.err = IF Ok(p) THEN [NoErr EXCEPT !.kind = "HANG"] ELSE @,
              !.cpos = 0, !.blen = 0, !.reof = TRUE]
refill_buffers_never_eof(p) ==
    LET n == Min(YAML_CHUNK_SIZE, Len(p.file) - p.fpos)
    IN  IF n = 0 /\ p.idle >= MaxIdleReads THEN Hang(p)
        ELSE [p EXCEPT !.chunk = IF n = 0 THEN p.chunk
                                 ELSE SubSeq(p.file, p.fpos + 1, p.fpos + n)
                                      \o SubSeq(p.chunk, n + 1, Len(p.chunk)),
                       !.fpos = p.fpos + n,
                       !.cpos = 0,
                       !.blen = n % UINT16,
                       !.idle = IF n = 0 THEN @ + 1 ELSE @]
\* p.csize is the size of the array yp->chunk, YAML_CHUNK_SIZE in parse_yaml.
refill_buffers(p) ==
    LET n == Min(p.csize, Len(p.file) - p.fpos)
    IN  IF n = 0 /\ p.idle >= MaxIdleReads THEN Hang(p)
        ELSE [p EXCEPT !.chunk = IF n = 0 THEN p.chunk
                                 ELSE SubSeq(p.file, p.fpos + 1, p.fpos + n)
                                      \o SubSeq(p.chunk, n + 1, Len(p.chunk)),
                       !.fpos = p.fpos + n,
                       !.cpos = 0,
                       !.blen = n % UINT16,
                       !.reof = (n = 0),
                       !.idle = IF n = 0 THEN @ + 1 ELSE @]

peek_char(p) ==
    IF p.cpos + 1 <= Len(p.chunk) THEN p.chunk[p.cpos + 1] ELSE UNINIT

peek_token(p) == p.cur_token

eof_reached(p) == p.reof

skip_char(p) ==
    LET q == IF peek_char(p) = CHAR_NEWLINE
             THEN [p EXCEPT !.line = (p.line + 1) % UINT16, !.lpos = 0]
             ELSE [p EXCEPT !.lpos = (p.lpos + 1) % UINT16]
    IN  IF q.cpos + 1 >= q.blen
        THEN call("refill_buffers", [q EXCEPT !.cpos = q.cpos + 1], 0)
        ELSE [q EXCEPT !.cpos = q.cpos + 1]

\* One turn of the while loop of skip_comment; p once the loop has ended.
skip_comment_turn(p) ==
    IF ~eof_reached(p) /\ peek_char(p) # CHAR_NEWLINE THEN call("skip_char", p, 0) ELSE p

\* n turns of the loop, halved so that a comment of a whole chunk is
\* evaluated at logarithmic depth.
RECURSIVE skip_comment_turns(_, _)
skip_comment_turns(p, n) ==
    IF n = 0 THEN p
    ELSE IF n = 1 THEN skip_comment_turn(p)
    ELSE LET q == skip_comment_turns(p, n \div 2)
         IN  IF eof_reached(q) THEN q ELSE skip_comment_turns(q, n - (n \div 2))

\* The loop takes one byte per turn: at most Len(p.file) turns.
skip_comment(p) == skip_comment_turns(p, Len(p.file))

RECURSIVE skip_spaces(_)
skip_spaces(p) ==
    IF peek_char(p) = CHAR_SPACE /\ ~eof_reached(p)
    THEN skip_spaces(call("skip_char", p, 0))
    ELSE p

skip_whitespace(p) ==
    IF ~Ok(p) THEN p
    ELSE LET q == skip_spaces(p)
         IN  IF peek_char(q) = CHAR_SPACE THEN q   \* returned at end of file
             ELSE IF peek_char(q) = CHAR_TAB
                  THEN parser_error(q, "TAB_INDENTATION", "", "")
                  ELSE q

\* n turns of the do-while of skip_all_whitespace, halved so that a run of
\* newlines of a whole chunk is evaluated at logarithmic depth; brk is set
\* once the loop has ended, by its break or by its condition.
RECURSIVE skip_newlines_turns(_, _)
skip_newlines_turns(p, n) ==
    IF n = 1
    THEN LET q == IF p.cpos + 1 >= p.blen
                  THEN IF eof_reached(p)
                       THEN [p EXCEPT !.cpos = p.cpos + 1, !.brk = TRUE]
                       ELSE call("refill_buffers", [p EXCEPT !.cpos = p.cpos + 1], 0)
                  ELSE [p EXCEPT !.cpos = p.cpos + 1]
         IN  IF q.brk THEN q
             ELSE LET r == [q EXCEPT !.line = (q.line + 1) % UINT16]
                  IN  IF peek_char(r) = CHAR_NEWLINE THEN r ELSE [r EXCEPT !.brk = TRUE]
    ELSE LET q == skip_newlines_turns(p, n \div 2)
         IN  IF q.brk THEN q ELSE skip_newlines_turns(q, n - (n \div 2))

\* The do-while of skip_all_whitespace: steps over a run of newlines, one
\* byte of the file or of the chunk per turn.
skip_newlines(p) ==
    [skip_newlines_turns(p, Len(p.file) + p.csize + 1) EXCEPT !.brk = FALSE]

\* Returns the next character that is no space and no newline in p.retc.
skip_all_whitespace(p) ==
    IF ~Ok(p) THEN p
    ELSE IF eof_reached(p) THEN [p EXCEPT !.retc = CHAR_EOF]
    ELSE LET q == call("skip_whitespace", p, 0)
         IN  IF ~Ok(q) THEN q
             ELSE IF peek_char(q) # CHAR_NEWLINE
                  THEN [q EXCEPT !.retc = peek_char(q)]
                  ELSE call("skip_all_whitespace", skip_newlines([q EXCEPT !.lpos = 0]), 0)

(***************************************************************************)
(* z3_string.h: growable strings.  gen counts the reallocations of chr     *)
(* (a pointer taken at one gen dangles at the next), live is chr # NULL.   *)
(***************************************************************************)
RECURSIVE Pow2From(_, _)
Pow2From(k, n) == IF k >= n THEN k ELSE Pow2From(2 * k, n)
next_power_of2(n) == IF n = 0 THEN 0 ELSE Pow2From(1, n)

z3_str(min) ==
    [max |-> next_power_of2(min), data |-> <<>>, gen |-> 0, live |-> TRUE]

RECURSIVE GrowMax(_, _)
GrowMax(max, need) == IF max >= need THEN max ELSE GrowMax(2 * max, need)

z3_reserve(s, additional) ==
    IF ~s.live THEN s
    ELSE IF Len(s.data) + additional + 1 > s.max /\ s.max > 0
         THEN [s EXCEPT !.max = GrowMax(s.max, Len(s.data) + additional + 1),
                        !.gen = s.gen + 1]
         ELSE s

z3_pushl(s, t) ==
    IF ~s.live \/ Len(t) = 0 THEN s
    ELSE [z3_reserve(s, Len(t)) EXCEPT !.data = s.data \o t]

z3_pushc(s, c) ==
    IF ~s.live THEN s
    ELSE [z3_reserve(s, 1) EXCEPT !.data = Append(s.data, c)]

z3_drops(s) ==
    IF ~s.live THEN s
    ELSE [s EXCEPT !.live = FALSE, !.data = <<>>, !.max = 0, !.gen = s.gen + 1]

\* z3_unescape over the escapes the model's alphabet can spell; an unknown
\* escape keeps the backslash and the character after it.
RECURSIVE z3_unescape(_)
z3_unescape(t) ==
    IF t = <<>> THEN <<>>
    ELSE IF Head(t) = CHAR_BACKSLASH
         THEN IF Len(t) = 1 THEN <<CHAR_BACKSLASH, CHAR_EOF>>
              ELSE LET c == t[2]
                       rest == z3_unescape(SubSeq(t, 3, Len(t)))
                   IN  CASE c = "n" -> <<CHAR_NEWLINE>> \o rest
                         [] c = "t" -> <<CHAR_TAB>> \o rest
                         [] c = CHAR_BACKSLASH -> <<CHAR_BACKSLASH>> \o rest
                         [] c = CHAR_QUOTE_DOUBLE -> <<CHAR_QUOTE_DOUBLE>> \o rest
                         [] c = CHAR_QUOTE_SINGLE -> <<CHAR_QUOTE_SINGLE>> \o rest
                         [] OTHER -> <<CHAR_BACKSLASH, c>> \o rest
         ELSE <<Head(t)>> \o z3_unescape(Tail(t))

(***************************************************************************)
(* The string arena (YamlStore): strs holds the shared buffers, bigs the   *)
(* dedicated ones.  A pointer into the arena is [vec, idx, gen, off].      *)
(***************************************************************************)
Ptr(v, i, g, o) == [vec |-> v, idx |-> i, gen |-> g, off |-> o]
NullPtr == Ptr("null", 0, 0, 0)
Buf(p, ref) == IF ref.vec = "strs" THEN p.strs[ref.idx] ELSE p.bigs[ref.idx]
SetBuf(p, ref, b) ==
    IF ref.vec = "strs" THEN [p EXCEPT !.strs[ref.idx] = b]
    ELSE [p EXCEPT !.bigs[ref.idx] = b]
\* hold->chr + off
ChrAt(p, ref, o) == Ptr(ref.vec, ref.idx, Buf(p, ref).gen, o)

PtrInArena(p, q) ==
    /\ q.vec \in {"strs", "bigs"}
    /\ q.idx \in 1..Len(IF q.vec = "strs" THEN p.strs ELSE p.bigs)
\* The pointer still designates the memory it was taken from.
PtrValid(p, q, len) ==
    /\ PtrInArena(p, q)
    /\ Buf(p, q).live
    /\ Buf(p, q).gen = q.gen
    /\ q.off + len <= Len(Buf(p, q).data)

RECURSIVE UpToNul(_)
UpToNul(t) ==
    IF t = <<>> \/ Head(t) = CHAR_EOF THEN <<>> ELSE <<Head(t)>> \o UpToNul(Tail(t))
\* The C string a pointer reads; a dangling pointer reads indeterminate bytes.
CStr(p, q) ==
    IF PtrValid(p, q, 0)
    THEN UpToNul(SubSeq(Buf(p, q).data, q.off + 1, Len(Buf(p, q).data)))
    ELSE <<UNINIT>>
\* The first n bytes a pointer reads.
Bytes(p, q, n) ==
    IF PtrValid(p, q, n)
    THEN SubSeq(Buf(p, q).data, q.off + 1, q.off + n)
    ELSE <<UNINIT>>

RECURSIVE FirstFit(_, _, _)
FirstFit(strs, i, reqsz) ==
    IF i > Len(strs) THEN 0
    ELSE IF reqsz + 1 < strs[i].max - Len(strs[i].data) THEN i
         ELSE FirstFit(strs, i + 1, reqsz)

\* Leaves the chosen buffer in p.hold.
get_string_line(p, reqsz) ==
    LET i == FirstFit(p.strs, 1, reqsz)
    IN  IF i > 0 THEN [p EXCEPT !.hold = [vec |-> "strs", idx |-> i]]
        ELSE IF reqsz >= STR_ALLOC_SIZE_BASE
             THEN [p EXCEPT !.bigs = Append(p.bigs, z3_str(reqsz)),
                            !.hold = [vec |-> "bigs", idx |-> Len(p.bigs) + 1]]
             ELSE [p EXCEPT !.strs = Append(p.strs, z3_str(STR_ALLOC_SIZE_BASE)),
                            !.hold = [vec |-> "strs", idx |-> Len(p.strs) + 1]]
NoHold == [vec |-> "none", idx |-> 0]


(***************************************************************************)
(* The token scanners.  The stack buffer ilubsm[STR_ALLOC_SIZE_BASE] is    *)
(* p.ilubsm (its first len bytes); a write at an index >= its size is      *)
(* recorded in p.ub and lands past the array.                              *)
(***************************************************************************)
PutChar(p, c) ==
    [p EXCEPT !.ilubsm = Append(p.ilubsm, c),
              !.ub = IF Len(p.ilubsm) >= STR_ALLOC_SIZE_BASE
                     THEN p.ub \cup {"ilubsm_overflow"} ELSE p.ub]

\* hold = hold ? hold : get_string_line (yp, len); z3_pushl (hold, ilubsm, len); len = 0;
FlushHold(p) ==
    LET q == IF p.hold = NoHold THEN call("get_string_line", p, Len(p.ilubsm)) ELSE p
    IN  [SetBuf(q, q.hold, call("z3_pushl", Buf(q, q.hold), q.ilubsm)) EXCEPT !.ilubsm = <<>>]

RECURSIVE scan_dq(_)
scan_dq(p) ==
    IF ~eof_reached(p) /\ peek_char(p) # CHAR_QUOTE_DOUBLE /\ peek_char(p) # CHAR_NEWLINE
    THEN scan_dq(call("skip_char", [p EXCEPT !.acc = Append(p.acc, peek_char(p))], 0))
    ELSE p

Emit(p, t) == [p EXCEPT !.cur_token = t, !.tok = t]

\* The offset in the file of the byte peek_char() reads.
FilePos(p) == p.fpos - p.blen + p.cpos
\* History: one record per quoted-string scan, with the offset of its opening
\* quote and whether the scan ended in a token.
LogQuote(p, r, quote) ==
    [r EXCEPT !.quotes = Append(@, [at |-> FilePos(p), quote |-> quote, token |-> Ok(r)])]

scan_string_unesc(p) ==
    LET q == scan_dq([call("skip_char", p, 0) EXCEPT !.acc = <<>>])
    IN  IF peek_char(q) # CHAR_QUOTE_DOUBLE
        THEN parser_error(q, "UNCLOSED_QUOTE", "\"",
                          IF ~eof_reached(q) THEN peek_char(q) ELSE "EOF")
        ELSE LET text == z3_unescape(q.acc)
                 unesc == call("z3_pushl", z3_str(32), text)
                 r == [q EXCEPT !.bigs = Append(q.bigs, unesc)]
                 ref == [vec |-> "bigs", idx |-> Len(r.bigs)]
             IN  Emit(call("skip_char", r, 0),
                      create_token("TOKEN_STRING", ChrAt(r, ref, 0), Len(text)))

try_string_unesc(p) == LogQuote(p, scan_string_unesc(p), CHAR_QUOTE_DOUBLE)

RECURSIVE scan_lit(_)
scan_lit(p) ==
    IF ~eof_reached(p) /\ peek_char(p) # CHAR_QUOTE_SINGLE /\ peek_char(p) # CHAR_NEWLINE
    THEN LET q == IF Len(p.ilubsm) > STR_ALLOC_SIZE_BASE THEN FlushHold(p) ELSE p
         IN  scan_lit(call("skip_char", PutChar(q, peek_char(q)), 0))
    ELSE p

\* The end of try_string_lit and of try_anchor_or_alias: the token text goes to
\* the arena.  In the hold branch of try_string_lit the start pointer is taken
\* before the last push (startFirst), in try_anchor_or_alias after it.
FinishToken(p, kind, startFirst) ==
    IF p.hold # NoHold
    THEN LET early == ChrAt(p, p.hold, 0)
             q == SetBuf(p, p.hold, call("z3_pushl", Buf(p, p.hold), p.ilubsm))
             start == IF startFirst THEN early ELSE ChrAt(q, q.hold, 0)
         IN  Emit(q, create_token(kind, start, Len(Buf(q, q.hold).data)))
    ELSE LET q == call("get_string_line", p, Len(p.ilubsm))
             beginning == Len(Buf(q, q.hold).data)
             r == SetBuf(q, q.hold, call("z3_pushc", call("z3_pushl", Buf(q, q.hold), q.ilubsm), CHAR_EOF))
         IN  Emit(r, create_token(kind, ChrAt(r, r.hold, beginning),
                                  Len(q.ilubsm)))

RECURSIVE lit_loop(_)
lit_loop(p) ==
    IF peek_char(p) # CHAR_QUOTE_SINGLE THEN FinishToken(p, "TOKEN_STRING_LIT", TRUE)
    ELSE LET q == scan_lit(call("skip_char", p, 0))
         IN  IF peek_char(q) # CHAR_QUOTE_SINGLE
             THEN parser_error(q, "UNCLOSED_QUOTE", peek_char(q),
                               IF ~eof_reached(q) THEN peek_char(q) ELSE "EOF")
             ELSE LET r == call("skip_char", q, 0)
                  IN  IF eof_reached(r) \/ peek_char(r) # CHAR_QUOTE_SINGLE
                      THEN FinishToken(r, "TOKEN_STRING_LIT", TRUE)
                      ELSE LET f == IF Len(r.ilubsm) > STR_ALLOC_SIZE_BASE
                                    THEN FlushHold(r) ELSE r
                           IN  lit_loop(PutChar(f, peek_char(f)))

try_string_lit(p) ==
    LogQuote(p, lit_loop([p EXCEPT !.ilubsm = <<>>, !.hold = NoHold]), CHAR_QUOTE_SINGLE)

RECURSIVE scan_anchor(_)
scan_anchor(p) ==
    IF ~eof_reached(p) /\ is_valid_anchor(peek_char(p))
    THEN LET q == IF Len(p.ilubsm) > STR_ALLOC_SIZE_BASE THEN FlushHold(p) ELSE p
         IN  scan_anchor(call("skip_char", PutChar(q, peek_char(q)), 0))
    ELSE p

try_anchor_or_alias(p, prefix) ==
    FinishToken(scan_anchor([p EXCEPT !.ilubsm = <<>>, !.hold = NoHold]),
                IF prefix = CHAR_AMPERSAND THEN "TOKEN_ANCHOR" ELSE "TOKEN_ALIAS",
                FALSE)

\* Leaves the number text in p.ilubsm and the result (length, or -1) in p.retn.
RECURSIVE scan_number(_)
scan_number(p) ==
    IF ~Ok(p) THEN p
    ELSE IF ~eof_reached(p) /\ is_number_parseable(peek_char(p))
    THEN IF Len(p.ilubsm) >= MAX_NUMBER_LENGTH
         THEN parser_error(p, "NUMBER_TOO_LONG", "", "")
         ELSE scan_number(call("skip_char", PutChar(p, peek_char(p)), 0))
    ELSE p

try_number(p) ==
    LET q == scan_number([p EXCEPT !.ilubsm = <<>>])
    IN  IF ~Ok(q) THEN q
        ELSE [q EXCEPT !.retn = IF eof_reached(q) \/ is_valid_delim(peek_char(q))
                                THEN Len(q.ilubsm) ELSE -1]

Pattern(c) == IF c = "t" THEN <<"t", "r", "u", "e">> ELSE <<"f", "a", "l", "s", "e">>
XCHAR == 120   \* 'x'

\* for (; pattern[len] != '\0'; len++): n is len.
RECURSIVE match_boolean(_, _, _)
match_boolean(p, pattern, n) ==
    IF n >= Len(pattern)
    THEN \* the whole literal matched; ilubsm was never written
         IF eof_reached(p) \/ is_valid_delim(peek_char(p))
         THEN [p EXCEPT !.retn = IF Len(pattern) = 4 THEN 1 ELSE 0]
         ELSE [p EXCEPT !.retn = n + XCHAR,
                        !.ilubsm = [i \in 1..n |-> UNINIT]]
    ELSE IF eof_reached(p) \/ peek_char(p) # pattern[n + 1]
         THEN [p EXCEPT !.retn = n + XCHAR, !.ilubsm = SubSeq(pattern, 1, n)]
         ELSE match_boolean(call("skip_char", p, 0), pattern, n + 1)

try_boolean(p) ==
    match_boolean(call("skip_char", [p EXCEPT !.ilubsm = <<>>], 0), Pattern(peek_char(p)), 1)

\* The while loop of try_key ending at every colon.
RECURSIVE scan_key_first_colon(_, _)
scan_key_first_colon(p, len) ==
    IF ~Ok(p) \/ eof_reached(p) THEN [p EXCEPT !.retn = len]
    ELSE IF U32Ge(len, STR_ALLOC_SIZE_BASE) THEN parser_error(p, "KEY_TOO_LONG", "", "")
    ELSE IF peek_char(p) = CHAR_COLON
         THEN [call("skip_char", p, 0) EXCEPT !.retn = len]
         ELSE scan_key_first_colon(call("skip_char", PutChar(p, peek_char(p)), 0), U32Inc(len))

\* len is the uint32_t counter; the bytes written so far are p.ilubsm.
\* p.keys is history: the text of every key token, in the order lexed.
RECURSIVE scan_key(_, _)
scan_key(p, len) ==
    IF ~Ok(p) \/ eof_reached(p) THEN [p EXCEPT !.retn = len]
    ELSE IF U32Ge(len, STR_ALLOC_SIZE_BASE) THEN parser_error(p, "KEY_TOO_LONG", "", "")
    ELSE IF peek_char(p) = CHAR_COLON
         THEN LET q == call("skip_char", p, 0)
              IN  IF eof_reached(q) \/ peek_char(q) = CHAR_SPACE
                  THEN [q EXCEPT !.retn = len]
                  ELSE scan_key(PutChar(q, CHAR_COLON), U32Inc(len))
         ELSE scan_key(call("skip_char", PutChar(p, peek_char(p)), 0), U32Inc(len))

try_key(p, blen) ==
    LET q == scan_key(p, blen)
    IN  IF ~Ok(q) THEN q
        ELSE IF U32Ge(q.retn, STR_ALLOC_SIZE_BASE) THEN parser_error(q, "KEY_TOO_LONG", "", "")
        ELSE LET r == call("get_string_line", q, q.retn)
                 start == ChrAt(r, r.hold, Len(Buf(r, r.hold).data))
                 w == SetBuf(r, r.hold,
                             call("z3_pushc", call("z3_pushl", Buf(r, r.hold), r.ilubsm), CHAR_EOF))
                 u == IF UNINIT \in {r.ilubsm[i] : i \in 1..Len(r.ilubsm)}
                      THEN [w EXCEPT !.ub = w.ub \cup {"ilubsm_uninit"}] ELSE w
             IN  Emit([u EXCEPT !.keys = Append(@, r.ilubsm)],
                      create_token("TOKEN_KEY", start, q.retn))

SingleKind(c) ==
    CASE c = CHAR_COMMA -> "TOKEN_COMMA"
      [] c = CHAR_OPEN_BRACE -> "TOKEN_OPEN_MAP"
      [] c = CHAR_OPEN_BRACKET -> "TOKEN_OPEN_SEQ"
      [] c = CHAR_CLOSE_BRACE -> "TOKEN_CLOSE_MAP"
      [] c = CHAR_CLOSE_BRACKET -> "TOKEN_CLOSE_SEQ"

\* The token returned is p.tok; cur_token is what peek_token() reads.  The
\* number and boolean returns do not assign cur_token.
RECURSIVE lex(_, _)
lex(p, prefix_char) ==
    IF ~Ok(p) THEN p
    ELSE IF eof_reached(p) THEN Emit(p, create_token("TOKEN_EOF", NullPtr, 0))
    ELSE LET q == call("skip_whitespace", p, 0)
             c == peek_char(q)
         IN  IF ~Ok(q) THEN q
             ELSE IF c = CHAR_NEWLINE THEN lex(call("skip_all_whitespace", q, 0), prefix_char)
             ELSE IF c = CHAR_HASH THEN lex(call("skip_comment", q, 0), prefix_char)
             ELSE IF c \in {CHAR_AMPERSAND, CHAR_ASTERISK} THEN lex(call("skip_char", q, 0), c)
             ELSE IF c \in {CHAR_COMMA, CHAR_OPEN_BRACE, CHAR_OPEN_BRACKET,
                            CHAR_CLOSE_BRACE, CHAR_CLOSE_BRACKET}
                  THEN call("skip_char", Emit(q, create_token(SingleKind(c), NullPtr, 1)), 0)
             ELSE IF c = CHAR_QUOTE_DOUBLE THEN call("try_string_unesc", q, 0)
             ELSE IF c = CHAR_QUOTE_SINGLE THEN call("try_string_lit", q, 0)
             ELSE IF eof_reached(q) THEN lex(q, prefix_char)
             ELSE IF prefix_char # "" THEN call("try_anchor_or_alias", q, prefix_char)
             ELSE IF is_number_parseable(c)
                  THEN LET n == call("try_number", q, 0)
                       IN  IF ~Ok(n) THEN n
                           ELSE IF n.retn # -1
                           THEN LET h == call("get_string_line", n, n.retn)
                                    start == ChrAt(h, h.hold, Len(Buf(h, h.hold).data))
                                    w == SetBuf(h, h.hold,
                                           call("z3_pushc", call("z3_pushl", Buf(h, h.hold), h.ilubsm),
                                                    CHAR_EOF))
                                IN  [w EXCEPT !.tok =
                                        create_token("TOKEN_NUMBER", start, n.retn)]
                           ELSE call("try_key", n, n.retn)
             ELSE IF c \in {"t", "f"}
                  THEN LET b == call("try_boolean", q, 0)
                       IN  IF b.retn < XCHAR
                           THEN [b EXCEPT !.tok =
                                    create_token("TOKEN_BOOLEAN", NullPtr, b.retn)]
                           ELSE call("try_key", b, b.retn - XCHAR)
             ELSE call("try_key", [q EXCEPT !.ilubsm = <<>>], 0)

\* p.ntok is history: the calls of next_token.
next_token(p) == IF ~Ok(p) THEN p ELSE lex([p EXCEPT !.ntok = @ + 1], "")


(***************************************************************************)
(* Nodes.  The heap is a sequence of node records; a Node* is an index     *)
(* into it and 0 is nullptr.  freed counts the calls of free() on it.      *)
(***************************************************************************)
NullNode == 0
create_node_as_map(p, kind) ==
    [p EXCEPT !.heap = Append(p.heap,
                 [kind |-> "NODE_MAP", rcount |-> 0, string |-> NullPtr,
                  number |-> <<>>, boolean |-> FALSE,
                  entries |-> <<>>, items |-> <<>>, freed |-> 0]),
              !.ret = Len(p.heap) + 1]
create_node(p, kind) ==
    [p EXCEPT !.heap = Append(p.heap,
                 [kind |-> kind, rcount |-> 0, string |-> NullPtr,
                  number |-> <<>>, boolean |-> FALSE,
                  entries |-> <<>>, items |-> <<>>, freed |-> 0]),
              !.ret = Len(p.heap) + 1]

map_add_front(p, map, key, val) ==
    [p EXCEPT !.heap[map].entries = <<[key |-> key, val |-> val]>> \o @]
list_add_front(p, seq, item) ==
    [p EXCEPT !.heap[seq].items = <<item>> \o @]

map_add(p, map, key, val) ==
    [p EXCEPT !.heap[map].entries = Append(@, [key |-> key, val |-> val])]

list_add(p, seq, item) ==
    [p EXCEPT !.heap[seq].items = Append(@, item)]

(***************************************************************************)
(* strtod() over the characters a number token can hold: an optional       *)
(* sign, digits, at most one point, digits; conversion stops at the first  *)
(* character that does not continue the number.  The value is              *)
(* [neg, int, frac] with the trailing zeros of frac removed.               *)
(***************************************************************************)
RECURSIVE TakeDigits(_)
TakeDigits(t) ==
    IF t = <<>> \/ ~isdigit(Head(t)) THEN <<>> ELSE <<Head(t)>> \o TakeDigits(Tail(t))
RECURSIVE DigitsValue(_, _)
DigitsValue(t, acc) ==
    IF t = <<>> THEN acc ELSE DigitsValue(Tail(t), 10 * acc + DigitVal(Head(t)))
RECURSIVE StripZeros(_)
StripZeros(t) ==
    IF t # <<>> /\ t[Len(t)] = "0" THEN StripZeros(SubSeq(t, 1, Len(t) - 1)) ELSE t

strtod(t) ==
    LET signed == t # <<>> /\ Head(t) \in {"-", "+"}
        body == IF signed THEN Tail(t) ELSE t
        ip == TakeDigits(body)
        rest == SubSeq(body, Len(ip) + 1, Len(body))
        fp == IF rest # <<>> /\ Head(rest) = "." THEN TakeDigits(Tail(rest)) ELSE <<>>
    IN  IF ip = <<>> /\ fp = <<>>
        THEN [neg |-> FALSE, int |-> 0, frac |-> <<>>]       \* no conversion
        ELSE [neg |-> signed /\ Head(t) = "-", int |-> DigitsValue(ip, 0),
              frac |-> StripZeros(fp)]

\* The copy loop of parse_number: i runs over 1..length+1, every byte that is
\* not '_' is written to ver_value[l++], and ver_value holds length bytes.
\* value[length] is the terminator; value[length + 1] lies behind it and is
\* counted as written (it is not when that byte happens to be '_').
NumberCopyWrites(text, length) ==
    Cardinality({i \in 1..(length + 1) :
                   (IF i + 1 <= Len(text) THEN text[i + 1] ELSE CHAR_EOF) # "_"})

\* while (i++ <= token.length): the indices i the body reads value[i] with.
NumberCopyReads(length) == 1..(length + 1)

\* p.copies is history: one record per call, with the token's text and
\* length, the lowest and highest index of value read and the writes made.
parse_number(p, token) ==
    LET q == create_node(p, "NODE_NUMBER")
        value == CStr(q, token.raw)
        reads == NumberCopyReads(token.length)
        r == IF NumberCopyWrites(value, token.length) > token.length
             THEN [q EXCEPT !.ub = q.ub \cup {"ver_value_overflow"}] ELSE q
    IN  [r EXCEPT !.heap[q.ret].number = strtod(value),
                  !.copies = Append(@,
                      [text |-> value, length |-> token.length,
                       first |-> CHOOSE i \in reads : \A j \in reads : i <= j,
                       last |-> CHOOSE i \in reads : \A j \in reads : j <= i,
                       writes |-> NumberCopyWrites(value, token.length)])]

(***************************************************************************)
(* The alias table (yp->aliases, a Vector of YamlAlias).  A slot that was  *)
(* never written reads as whatever the memory holds: p.junk says whether   *)
(* that is zero bytes ("null"), a non-null value with a name that is a     *)
(* readable string equal to no alias ("wild"), or a non-null value with a  *)
(* name that cannot be read ("trap").                                      *)
(***************************************************************************)
WildNode == -1
NoSlot == [init |-> FALSE, name |-> NullPtr, value |-> NullNode]
SlotAt(p, i) ==
    IF i + 1 <= Len(p.aliases.val) /\ p.aliases.val[i + 1].init
    THEN p.aliases.val[i + 1]
    ELSE [init |-> FALSE, name |-> NullPtr,
          value |-> IF p.junk = "null" THEN NullNode ELSE WildNode]

RECURSIVE Pad(_, _)
Pad(v, n) == IF Len(v) >= n THEN v ELSE Pad(Append(v, NoSlot), n)

z3_push_alias(p, name, value) ==
    LET len == p.aliases.len
        max == IF len >= p.aliases.max
               THEN (IF p.aliases.max = 0 THEN Z3_VECTOR_INITIAL_CAPACITY
                     ELSE 2 * p.aliases.max)
               ELSE p.aliases.max
    IN  [p EXCEPT !.aliases =
            [len |-> len + 1, max |-> max,
             val |-> [Pad(p.aliases.val, len + 1) EXCEPT
                         ![len + 1] = [init |-> TRUE, name |-> name, value |-> value]]]]

\* strcmp (a->name, alias) over slots i..len-1; the result is p.ret.
RECURSIVE find_alias(_, _, _)
find_alias(p, alias, i) ==
    IF i >= p.aliases.len THEN [p EXCEPT !.ret = NullNode]
    ELSE LET a == SlotAt(p, i)
         IN  IF ~a.init
             THEN IF p.junk # "wild"
                  THEN [p EXCEPT !.err = [kind |-> "SEGV", exp |-> "", got |-> "strcmp", text |-> <<>>],
                                 !.ub = p.ub \cup {"alias_slot_uninit"}]
                  ELSE find_alias([p EXCEPT !.ub = p.ub \cup {"alias_slot_uninit"}],
                                  alias, i + 1)
             ELSE IF CStr(p, a.name) = alias THEN [p EXCEPT !.ret = a.value]
                  ELSE find_alias(p, alias, i + 1)

parse_alias(p, alias) ==
    IF p.aliases.len = 0 THEN [p EXCEPT !.ret = NullNode]
    ELSE find_alias(p, alias, 0)


(***************************************************************************)
(* The tree builder.  Every parse_* leaves the Node* it returns in p.ret.  *)
(* p.derefs, p.binds and p.merges are history: one record per alias        *)
(* dereference, per anchor binding and per alias merge.                    *)
(***************************************************************************)
UNEXPECTED_TOKEN == "UNEXPECTED_TOKEN"
RcountOf(p) == [i \in 1..Len(p.heap) |-> p.heap[i].rcount]

RECURSIVE parse_list_loop(_, _)
RECURSIVE parse_map_loop(_, _)

parse_list_loop(p, node) ==
    IF ~Ok(p) THEN p
    ELSE IF peek_char(p) = CHAR_CLOSE_BRACKET THEN [call("next_token", p, 0) EXCEPT !.ret = node]
    ELSE LET v == call("parse_value", p, 0)
             item == v.ret
             t == call("next_token", v, 0)
             token == t.tok
         IN  IF ~Ok(t) THEN t
             ELSE IF token.kind = "TOKEN_EOF"
                  THEN parser_error(t, UNEXPECTED_TOKEN, "TOKEN_CLOSE_SEQ", token.kind)
             ELSE IF token.kind # "TOKEN_COMMA" /\ token.kind # "TOKEN_CLOSE_SEQ"
                  THEN parser_error(t, UNEXPECTED_TOKEN, "TOKEN_CLOSE_SEQ", token.kind)
             ELSE LET a == list_add(t, node, item)
                  IN  IF token.kind = "TOKEN_CLOSE_SEQ" THEN [a EXCEPT !.ret = node]
                      ELSE parse_list_loop(a, node)

parse_list(p) ==
    LET q == create_node(p, "NODE_LIST") IN parse_list_loop(q, q.ret)

merge_entries_none(p, node, value, j) == p
\* for (j = 0; j < value->map.size; j++) of the alias merge.
RECURSIVE merge_entries(_, _, _, _)
merge_entries(p, node, value, j) ==
    IF j > Len(p.heap[value].entries) THEN p
    ELSE LET e == p.heap[value].entries[j]
             q == IF U32Pos(p.heap[value].rcount)
                  THEN [p EXCEPT !.heap[e.val].rcount = U32Inc(@)] ELSE p
         IN  merge_entries(map_add(q, node, e.key, e.val), node, value, j + 1)

\* merge_key without its tests of the value: whatever is no literal map is
\* parsed as a value and left out.
merge_key_any_value(p, node) ==
    LET w == call("skip_all_whitespace", p, 0)
    IN  IF ~Ok(w) THEN w
        ELSE IF w.retc = CHAR_OPEN_BRACE
             THEN parse_map_loop(call("parse_map", call("next_token", w, 0), node), node)
        ELSE LET v == call("parse_value", w, 0)
             IN  IF ~Ok(v) THEN v ELSE parse_map_loop(v, node)

\* The branch of parse_map taken for the key "<<".
merge_key(p, node) ==
    LET w == call("skip_all_whitespace", p, 0)
        c == w.retc
    IN  IF ~Ok(w) THEN w
        ELSE IF c = CHAR_OPEN_BRACE
             THEN parse_map_loop(call("parse_map", call("next_token", w, 0), node), node)
        ELSE IF c = CHAR_ASTERISK
             THEN LET v == call("parse_value", w, 0)
                      value == v.ret
                  IN  IF ~Ok(v) THEN v
                      ELSE IF v.heap[value].kind # "NODE_MAP"
                           THEN parser_error(v, UNEXPECTED_TOKEN, "map", v.heap[value].kind)
                      ELSE LET m == merge_entries(v, node, value, 1)
                               d == [m EXCEPT !.heap[value].rcount = U32Dec(@)]
                           IN  parse_map_loop(
                                 [d EXCEPT !.merges = Append(@,
                                     [src |-> value, dst |-> node,
                                      viaAlias |-> value <= Len(w.heap),
                                      at |-> Len(w.heap[node].entries),
                                      dstBefore |-> w.heap[node].entries,
                                      srcEntries |-> v.heap[value].entries,
                                      rcBefore |-> RcountOf(w),
                                      rcAfter |-> RcountOf(d)])],
                                 node)
        ELSE LET t == call("next_token", w, 0)
             IN  parser_error(t, UNEXPECTED_TOKEN, "map or map alias", t.tok.kind)

\* One turn of the while (true) of parse_map, from the token it consumed on.
map_entry(p, node, token) ==
    IF ~Ok(p) THEN p
    ELSE IF token.kind = "TOKEN_EOF"
         THEN IF p.root_mark = 1 THEN p
              ELSE parser_error(p, UNEXPECTED_TOKEN, "TOKEN_CLOSE_MAP", token.kind)
    ELSE IF token.kind # "TOKEN_KEY"
         THEN parser_error(p, UNEXPECTED_TOKEN, "TOKEN_KEY", token.kind)
    ELSE IF token.length = 2 /\ Bytes(p, token.raw, 2) = <<"<", "<">>
         THEN merge_key(p, node)
    ELSE LET v == call("parse_value", p, 0)
         IN  IF ~Ok(v) THEN v
             ELSE parse_map_loop(map_add(v, node, token.raw, v.ret), node)

parse_map_loop(p, node) ==
    IF ~Ok(p) THEN p
    ELSE LET t == call("next_token", p, 0)
         IN  IF ~Ok(t) \/ t.tok.kind = "TOKEN_CLOSE_MAP" THEN t
             ELSE LET token == peek_token(t)
                  IN  IF token.kind = "TOKEN_COMMA"
                      THEN IF t.root_mark = 1
                           THEN parser_error(t, UNEXPECTED_TOKEN, "TOKEN_KEY", token.kind)
                           ELSE LET u == call("next_token", t, 0) IN map_entry(u, node, u.tok)
                      ELSE IF Len(t.heap[node].entries) > 0 /\ t.root_mark > 1
                           THEN parser_error(t, UNEXPECTED_TOKEN, "TOKEN_COMMA", token.kind)
                           ELSE map_entry(t, node, token)

\* p.maps is history: one record per call, with the token the map was
\* entered on and the value of root_mark its loop runs with.
parse_map(p, node) ==
    LET m == parse_map_loop(
               [p EXCEPT !.root_mark = (@ + 1) % UINT16,
                         !.maps = Append(@, [node |-> node, opened |-> p.cur_token.kind,
                                             mark |-> (p.root_mark + 1) % UINT16])],
               node)
    IN  IF ~Ok(m) THEN m ELSE [m EXCEPT !.root_mark = (@ - 1) % UINT16]

\* The TOKEN_ANCHOR case of parse_value.
bind_anchor(t, token) ==
    LET len == t.aliases.len
        last == SlotAt(t, len - 1)
        g == IF len > 0 /\ ~last.init
             THEN [t EXCEPT !.ub = @ \cup {"alias_slot_uninit"}] ELSE t
    IN  IF len > 0 /\ last.value = NullNode
        THEN parser_error(g, UNEXPECTED_TOKEN, "a value", token.kind)
        ELSE LET f == call("parse_alias", g, CStr(g, token.raw))
             IN  IF ~Ok(f) THEN f
                 ELSE IF f.ret # NullNode
                 THEN parser_error_at(f, "REDEFINED_ALIAS", CStr(f, token.raw))
                 ELSE LET v == call("parse_value", [f EXCEPT !.aliases.len = @ + 1], 0)
                          value == v.ret
                          b == z3_push_alias(
                                 [v EXCEPT !.aliases.len = @ - 1], token.raw, value)
                      IN  IF ~Ok(v) THEN v
                          ELSE [b EXCEPT !.ret = value,
                                  !.binds = Append(@,
                                     [name |-> CStr(b, token.raw),
                                      node |-> value])]

\* History: one record per anchor token parse_value took, with the bindings
\* completed before it, the alias table and the read position around it.
LogAnchor(p, name, r) ==
    [r EXCEPT !.anchors = Append(@,
        [name |-> name, binds |-> p.binds, ub |-> p.ub,
         tableBefore |-> p.aliases, tableAfter |-> r.aliases,
         posBefore |-> FilePos(p), posAfter |-> FilePos(r),
         heapBefore |-> p.heap, heapAfter |-> r.heap,
         err |-> r.err.kind])]

\* The TOKEN_ALIAS case of parse_value.
deref_alias(t, token) ==
    LET f == call("parse_alias", t, CStr(t, token.raw))
        value == f.ret
    IN  IF ~Ok(f) THEN f
        ELSE IF value = NullNode
        THEN parser_error_at(f, "UNDEFINED_ALIAS", CStr(f, token.raw))
        ELSE [f EXCEPT !.heap[value].rcount = U32Inc(@),
                       !.ret = value,
                       !.derefs = Append(@,
                          [name |-> CStr(f, token.raw), node |-> value,
                           binds |-> f.binds,
                           before |-> f.heap[value].rcount,
                           after |-> U32Inc(f.heap[value].rcount)])]

\* History: one record per alias token parse_value took, with the bindings
\* completed before it and the reference counts around it.
LogLookup(p, name, r) ==
    [r EXCEPT !.lookups = Append(@,
        [name |-> name, binds |-> p.binds, len |-> p.aliases.len,
         rcBefore |-> RcountOf(p), rcAfter |-> RcountOf(r),
         returned |-> Ok(r), err |-> r.err.kind])]

parse_value(p) ==
    IF ~Ok(p) THEN p
    ELSE
    LET t == call("next_token", p, 0)
        token == t.tok
    IN  IF ~Ok(t) THEN t
        ELSE CASE token.kind = "TOKEN_ANCHOR" ->
                LogAnchor(t, CStr(t, token.raw), bind_anchor(t, token))
          [] token.kind = "TOKEN_ALIAS" ->
                LogLookup(t, CStr(t, token.raw), deref_alias(t, token))
          [] token.kind \in {"TOKEN_STRING", "TOKEN_STRING_LIT"} ->
                LET q == create_node(t, "NODE_STRING")
                IN  [q EXCEPT !.heap[q.ret].string = token.raw]
          [] token.kind = "TOKEN_NUMBER" -> call("parse_number", t, token)
          [] token.kind = "TOKEN_BOOLEAN" ->
                LET q == create_node(t, "NODE_BOOLEAN")
                IN  [q EXCEPT !.heap[q.ret].boolean = (token.length = 1)]
          [] token.kind = "TOKEN_OPEN_MAP" ->
                LET q == create_node(t, "NODE_MAP")
                IN  [call("parse_map", q, q.ret) EXCEPT !.ret = q.ret]
          [] token.kind = "TOKEN_OPEN_SEQ" -> call("parse_list", t, 0)
          [] OTHER -> parser_error(t, UNEXPECTED_TOKEN, "a value", token.kind)

(***************************************************************************)
(* free_node: rcount > 0 gives one reference back, otherwise the children  *)
(* are released and the node is freed.  A visit of a node that was freed   *)
(* already reads freed memory.                                             *)
(***************************************************************************)
Children(n) ==
    IF n.kind = "NODE_MAP" THEN [i \in 1..Len(n.entries) |-> n.entries[i].val]
    ELSE IF n.kind = "NODE_LIST" THEN n.items
    ELSE <<>>

RECURSIVE free_children(_, _, _)
free_children(p, kids, i) ==
    IF i > Len(kids) THEN p ELSE free_children(call("free_node", p, kids[i]), kids, i + 1)

free_node(p, node) ==
    IF node = NullNode THEN p
    ELSE LET n == p.heap[node]
             q == IF n.freed > 0 THEN [p EXCEPT !.ub = @ \cup {"use_after_free"}] ELSE p
         IN  IF U32Pos(n.rcount) THEN [q EXCEPT !.heap[node].rcount = U32Dec(@)]
             ELSE [free_children(q, Children(n), 1) EXCEPT !.heap[node].freed = @ + 1]

free_yaml(p, node) == call("free_node", p, node)

\* strcmp over the entries from i on; the entry's value, or nullptr.  A key
\* pointer that dangles reads freed memory: the bytes written there are
\* still read, or other bytes are, or the read traps (p.dangling).
TrapNode == -2
KeyWritten(p, q) ==
    IF PtrInArena(p, q)
    THEN UpToNul(SubSeq(Buf(p, q).data, q.off + 1, Len(Buf(p, q).data)))
    ELSE <<UNINIT>>
KeyRead(p, q) == IF p.dangling = "kept" THEN KeyWritten(p, q) ELSE CStr(p, q)
RECURSIVE find_entry(_, _, _, _)
find_entry(p, node, key, i) ==
    IF i > Len(p.heap[node].entries) THEN NullNode
    ELSE IF p.dangling = "trap" /\ ~PtrValid(p, p.heap[node].entries[i].key, 0) THEN TrapNode
    ELSE IF KeyRead(p, p.heap[node].entries[i].key) = key THEN p.heap[node].entries[i].val
         ELSE find_entry(p, node, key, i + 1)

map_get_node(p, node, key) ==
    IF node = NullNode \/ p.heap[node].kind # "NODE_MAP" THEN NullNode
    ELSE find_entry(p, node, key, 1)

(***************************************************************************)
(* parse_yaml.  The path is PathLen bytes; YamlParser yp = {0}.            *)
(***************************************************************************)
FilePath == [i \in 1..PathLen |-> "p"]

InitParser(f, j) ==
    [file |-> f, fpos |-> 0, chunk |-> <<>>, csize |-> YAML_CHUNK_SIZE, cpos |-> 0, blen |-> 0, reof |-> FALSE,
     line |-> 0, lpos |-> 0, brk |-> FALSE, retc |-> CHAR_EOF, err |-> NoErr,
     cur_token |-> NoToken, tok |-> NoToken, first |-> NoToken,
     strs |-> <<call("z3_pushc", call("z3_pushl", z3_str(STR_ALLOC_SIZE_BASE), FilePath), CHAR_EOF)>>,
     bigs |-> <<>>, hold |-> NoHold, ilubsm |-> <<>>, ub |-> {}, acc |-> <<>>,
     retn |-> 0, root_mark |-> 0, aliases |-> [len |-> 0, max |-> 0, val |-> <<>>],
     junk |-> j, heap |-> <<>>, ret |-> NullNode,
     derefs |-> <<>>, binds |-> <<>>, merges |-> <<>>, quotes |-> <<>>,
     lookups |-> <<>>, anchors |-> <<>>, rootdone |-> FALSE, after |-> NoToken,
     last |-> NoToken, copies |-> <<>>,
     maps |-> <<>>, ntok |-> 0, raised |-> <<>>, status |-> "none",
     dangling |-> "lost", idle |-> 0, keys |-> <<>>]

\* yp.cpos = 0; yp.line = 0; yp.lpos = 0;
Backtrack(p) == [p EXCEPT !.cpos = 0, !.line = 0, !.lpos = 0]

\* The arena is put back to where it was before the first token, KEY case.
UndoKey(p, curr_str_len) ==
    IF Len(p.strs[1].data) # curr_str_len
    THEN [p EXCEPT !.strs[1].data = SubSeq(@, 1, curr_str_len)]
    ELSE [p EXCEPT !.strs[2] = z3_drops(@)]

\* The same in the default case.  With one buffer in strs and none in bigs,
\* z3_drops reads a String that was never written.
UndoValue(p, curr_str_len) ==
    IF Len(p.strs[1].data) # curr_str_len
    THEN [p EXCEPT !.strs[1].data = SubSeq(@, 1, curr_str_len)]
    ELSE IF Len(p.strs) = 2 THEN [p EXCEPT !.strs[2] = z3_drops(@)]
    ELSE IF Len(p.bigs) >= 1 THEN [p EXCEPT !.bigs[1] = z3_drops(@)]
    ELSE IF p.junk = "null" THEN [p EXCEPT !.ub = @ \cup {"z3_drops_uninit"}]
    ELSE [p EXCEPT !.ub = @ \cup {"z3_drops_uninit"},
                   !.err = [kind |-> "SEGV", exp |-> "", got |-> "free", text |-> <<>>]]

parse_root(p, curr_str_len) ==
    LET first == p.tok
    IN  IF ~Ok(p) THEN p
        ELSE CASE first.kind = "TOKEN_OPEN_SEQ" ->
                    call("parse_list", [p EXCEPT !.root_mark = (@ + 1) % UINT16], 0)
               [] first.kind = "TOKEN_OPEN_MAP" ->
                    LET q == create_node([p EXCEPT !.root_mark = (@ + 1) % UINT16],
                                         "NODE_MAP")
                    IN  [call("parse_map", q, q.ret) EXCEPT !.ret = q.ret]
               [] first.kind = "TOKEN_KEY" ->
                    LET q == create_node(UndoKey(Backtrack(p), curr_str_len), "NODE_MAP")
                    IN  [call("parse_map", q, q.ret) EXCEPT !.ret = q.ret]
               [] OTHER -> call("parse_value", UndoValue(Backtrack(p), curr_str_len), 0)

expect_eof_any(l, node) == IF ~Ok(l) THEN l ELSE [l EXCEPT !.ret = node]
\* The check of the token read after the root value.  p.rootdone and p.after
\* are history: the root value was parsed, and the token read after it.
expect_eof(l, node) ==
    IF ~Ok(l) THEN l
    ELSE IF l.tok.kind # "TOKEN_EOF"
         THEN parser_error(l, UNEXPECTED_TOKEN, "TOKEN_EOF", l.cur_token.kind)
         ELSE [l EXCEPT !.ret = node]

\* die (fmt, ...): the message is written and the process ends in _exit (1).
die(p, msg) ==
    [p EXCEPT !.err = [kind |-> "DIE", exp |-> "", got |-> msg, text |-> <<>>], !.status = "EXIT_FAILURE"]
die_if_empty_skipped(p) == p
\* if (eof_reached (&yp)) die ("File is empty");
die_if_empty(p) == IF eof_reached(p) THEN die(p, "File is empty") ELSE p

\* parse_yaml with a chunk of size bytes.
parse_chunked(f, j, size) ==
    LET p0 == [InitParser(f, j) EXCEPT !.csize = size]
        curr_str_len == Len(p0.strs[1].data)
        p1 == call("refill_buffers", p0, 0)
        p2 == die_if_empty(p1)
    IN  IF ~Ok(p2) THEN p2
        ELSE LET f1 == call("next_token", p2, 0)
                 r == parse_root([f1 EXCEPT !.first = f1.tok], curr_str_len)
                 l == call("next_token", [r EXCEPT !.rootdone = Ok(r)], 0)
             IN  expect_eof([l EXCEPT !.after = IF Ok(l) THEN l.tok ELSE NoToken,
                                      !.last = r.cur_token], r.ret)

parse_yaml(f, j) == parse_chunked(f, j, YAML_CHUNK_SIZE)

(***************************************************************************)
(* A call of one of the parser's functions: call(f, x, y) is f applied to  *)
(* x, or to x and y for the functions of two arguments.                    *)
(***************************************************************************)
call(f, x, y) ==
    CASE f = "skip_char" -> skip_char(x)
      [] f = "skip_comment" -> skip_comment(x)
      [] f = "skip_whitespace" -> skip_whitespace(x)
      [] f = "skip_all_whitespace" -> skip_all_whitespace(x)
      [] f = "get_string_line" -> get_string_line(x, y)
      [] f = "z3_pushl" -> z3_pushl(x, y)
      [] f = "z3_pushc" -> z3_pushc(x, y)
      [] f = "try_string_unesc" -> try_string_unesc(x)
      [] f = "try_string_lit" -> try_string_lit(x)
      [] f = "try_anchor_or_alias" -> try_anchor_or_alias(x, y)
      [] f = "try_number" -> try_number(x)
      [] f = "try_boolean" -> try_boolean(x)
      [] f = "try_key" -> try_key(x, y)
      [] f = "next_token" -> next_token(x)
      [] f = "parse_alias" -> parse_alias(x, y)
      [] f = "parse_number" -> parse_number(x, y)
      [] f = "parse_list" -> parse_list(x)
      [] f = "parse_map" -> parse_map(x, y)
      [] f = "parse_value" -> parse_value(x)
      [] f = "free_node" -> free_node(x, y)
      [] f = "refill_buffers" -> refill_buffers(x)
      [] f = "parse_yaml" -> parse_yaml(x, y)
      [] f = "free_yaml" -> free_yaml(x, y)

(***************************************************************************)
(* Documents.  K(k) is a one-letter key with its colon and space.          *)
(***************************************************************************)
K(k) == <<k, CHAR_COLON, CHAR_SPACE>>
MK == <<"<", "<", CHAR_COLON, CHAR_SPACE>>     \* the merge key
NL == <<CHAR_NEWLINE>>

RECURSIVE Concat(_)
Concat(ss) == IF ss = <<>> THEN <<>> ELSE Head(ss) \o Concat(Tail(ss))

SeqsUpTo(S, n) == UNION {[1..k -> S] : k \in 0..n}

\* Anchor lines: the first lines of a document of the alias family.
BaseLines ==
    << K("b") \o <<"&", "n", " ", "5">> \o NL,                          \* b: &n 5
       K("b") \o <<"&", "n", " ", "{">> \o K("k") \o <<"1", "}">> \o NL, \* b: &n {k: 1}
       K("b") \o <<"&", "n", " ", "{">> \o K("k") \o <<"1", ",", " ">>
              \o K("j") \o <<"2", "}">> \o NL,                  \* b: &n {k: 1, j: 2}
       K("b") \o <<"&", "n", " ", "[", "1", ",", " ", "2", "]">> \o NL, \* b: &n [1, 2]
       K("a") \o <<"&", "m", " ", "{">> \o K("k") \o <<"1", "}">> \o NL
              \o K("b") \o <<"&", "n", " ", "{">> \o MK \o <<"*", "m", ",", " ">>
              \o MK \o <<"*", "m", "}">> \o NL,  \* a: &m {k: 1} / b: &n {<<: *m, <<: *m}
       K("b") \o <<"&", "n", " ", "{">> \o K("k") \o <<"&", "m", " ", "2", "}">> \o NL,
                                                                \* b: &n {k: &m 2}
       K("b") \o <<"&", "n", " ", "&", "m", " ", "5">> \o NL,          \* b: &n &m 5
       <<>> >>                                                  \* no anchor line

\* Lines that use the anchors.
UseLines ==
    << K("x") \o <<"*", "n">> \o NL,                                    \* x: *n
       K("c") \o <<"{">> \o MK \o <<"*", "n", ",", " ">> \o K("e")
              \o <<"1", "}">> \o NL,                            \* c: {<<: *n, e: 1}
       K("c") \o <<"{">> \o K("e") \o <<"1", ",", " ">> \o MK
              \o <<"*", "n", "}">> \o NL,                       \* c: {e: 1, <<: *n}
       MK \o <<"*", "n">> \o NL,                                   \* <<: *n
       K("x") \o <<"[", "*", "n", ",", " ", "*", "n", "]">> \o NL,    \* x: [*n, *n]
       MK \o <<"*", "{">> \o K("k") \o <<"1", "}">> \o NL,      \* <<: *{k: 1}
       K("y") \o <<"*", "m">> \o NL,                                    \* y: *m
       K("d") \o <<"&", "n", " ", "7">> \o NL,                         \* d: &n 7
       K("d") \o <<"&", "m", " ", "7">> \o NL >>                        \* d: &m 7

MaxUses == 2
AliasDocs ==
    {[base |-> b, uses |-> u] : b \in 1..Len(BaseLines),
                                u \in SeqsUpTo(1..Len(UseLines), MaxUses)}
AliasFile(d) == BaseLines[d.base] \o Concat([i \in 1..Len(d.uses) |-> UseLines[d.uses[i]]])


\* Flow collections: a document of this family is the rendering of a tree of
\* numbers, lists and maps, at the top of the file or as the value of a key.
\* A tree node is [t, c, q, k]: its kind, the digit of a number, the elements
\* of a collection, and the key it is stored under when it is a map entry.
Num(c) == [t |-> "num", c |-> c, q |-> <<>>, k |-> ""]
List(q) == [t |-> "list", c |-> "", q |-> q, k |-> ""]
Map(q) == [t |-> "map", c |-> "", q |-> q, k |-> ""]
Pair(k, x) == [x EXCEPT !.k = k]

MaxLen == 2      \* elements of an outer collection
MaxInner == 2    \* elements of a list nested in a list
Scalars == {Num("1"), Num("2")}
InnerLists == {List(q) : q \in SeqsUpTo(Scalars, MaxInner)}
InnerMaps == {Map(<<>>), Map(<<Pair("a", Num("1"))>>),
              Map(<<Pair("a", Num("1")), Pair("a", Num("2"))>>)}
ListAsts ==
    {List(q) : q \in SeqsUpTo(Scalars \cup InnerLists \cup {Map(<<Pair("a", Num("1"))>>)},
                              MaxLen)}
MapAsts ==
    {Map(q) : q \in SeqsUpTo({Pair(k, x) : k \in {"a", "b"},
                                           x \in Scalars \cup InnerMaps
                                                 \cup {List(<<Num("1"), Num("2")>>)}},
                             MaxLen)}

RECURSIVE Render(_)
RECURSIVE RenderItems(_, _)
RenderItems(t, q) ==
    IF q = <<>> THEN <<>>
    ELSE (IF t = "map" THEN K(Head(q).k) ELSE <<>>) \o Render(Head(q))
         \o (IF Len(q) > 1 THEN <<CHAR_COMMA, CHAR_SPACE>> ELSE <<>>)
         \o RenderItems(t, Tail(q))
Render(a) ==
    CASE a.t = "num" -> <<a.c>>
      [] a.t = "list" -> <<CHAR_OPEN_BRACKET>> \o RenderItems("list", a.q)
                         \o <<CHAR_CLOSE_BRACKET>>
      [] a.t = "map" -> <<CHAR_OPEN_BRACE>> \o RenderItems("map", a.q)
                        \o <<CHAR_CLOSE_BRACE>>

FlowFile(a, ctx) == (IF ctx = "root" THEN <<>> ELSE K("v")) \o Render(a) \o NL

\* Numbers: `x: <text>` for the texts over digits, point, sign and `_`.
MaxNum == 3
NumTexts == UNION {[1..k -> {"1", "0", "_", ".", "-"}] : k \in 1..MaxNum}
NumFile(t) == K("x") \o t \o NL

\* Top-level values that are no map and no list.
RootFiles ==
    { <<"5">> \o NL, <<"-", "1", ".", "5">> \o NL, <<"'", "s", "'">> \o NL,
      <<"\"", "s", "\"">> \o NL, <<"t", "r", "u", "e">> \o NL,
      <<"f", "a", "l", "s", "e">> \o NL, <<"&", "a", " ", "5">> \o NL,
      <<"&", "a", " ", "{">> \o K("x") \o <<"1", "}">> \o NL,
      <<"&", "a", " ", "[", "1", "]">> \o NL, <<"#", "c">> \o NL, <<>> }

\* Long tokens: keys, single-quoted strings and anchor names of every length
\* around STR_ALLOC_SIZE_BASE.
Rep(c, n) == [i \in 1..n |-> c]
LongFiles ==
    {Rep("k", n) \o <<CHAR_COLON, CHAR_SPACE, "1">> \o NL :
        n \in 1..STR_ALLOC_SIZE_BASE}
    \cup {K("a") \o <<"1">> \o NL \o Rep("k", n) \o <<CHAR_COLON, CHAR_SPACE, "1">> \o NL :
        n \in 1..STR_ALLOC_SIZE_BASE}
    \cup {K("a") \o <<"'">> \o Rep("s", n) \o <<"'">> \o NL :
        n \in 0..(2 * STR_ALLOC_SIZE_BASE + 3)}
    \cup {K("a") \o <<"&">> \o Rep("n", n) \o <<" ", "1">> \o NL
          \o K("b") \o <<"*">> \o Rep("n", n) \o NL :
        n \in 1..(STR_ALLOC_SIZE_BASE + 2)}

\* Quoted strings, closed and unclosed, at the start of the file, as the
\* value of a key and inside a flow collection, followed by the end of the
\* file, by a newline or by more text.
QuoteHeads ==
    { <<>>, K("a"), K("a") \o <<"1">> \o NL \o K("b"), K("a") \o <<"[">>,
      K("a") \o <<"{">> \o K("k") }
QuoteTexts ==
    { <<"\"", "s">>, <<"\"", "s", "\"">>, <<"\"">>, <<"\"", "s", "'">>,
      <<"'", "s">>, <<"'", "s", "'">>, <<"'">>, <<"'", "s", "\"">>,
      <<"'", "s", "'", "'", "t">>, <<"'", "s", "'", "'", "t", "'">>,
      <<"'", "s", "'", "'">> }
QuoteTails ==
    { <<>>, NL, NL \o K("z") \o <<"\"", "t", "\"">> \o NL, <<" ", "#", "\"", "'">> \o NL }
QuoteFiles == {h \o t \o e : h \in QuoteHeads, t \in QuoteTexts, e \in QuoteTails}

\* Aliases of names that are not bound: outside every anchor, and inside the
\* value of an anchor that is still being parsed.
UndefFiles ==
    { K("x") \o <<"*", "z">> \o NL,                                  \* x: *z
      K("a") \o <<"&", "m", " ", "1">> \o NL \o K("x") \o <<"*", "z">> \o NL,
      K("b") \o <<"&", "n", " ", "[", "*", "n", "]">> \o NL,           \* b: &n [*n]
      K("b") \o <<"&", "n", " ", "[", "*", "z", "]">> \o NL,           \* b: &n [*z]
      K("b") \o <<"&", "n", " ", "{">> \o K("k") \o <<"*", "n", "}">> \o NL,
      K("b") \o <<"&", "n", " ", "*", "n">> \o NL,                     \* b: &n *n
      K("a") \o <<"&", "m", " ", "1">> \o NL
             \o K("b") \o <<"&", "n", " ", "[", "*", "z", "]">> \o NL,
      K("a") \o <<"&", "m", " ", "1">> \o NL
             \o K("b") \o <<"&", "n", " ", "[", "*", "m", "]">> \o NL }

\* Tabs: a document of this family is a sequence of pieces, each with the
\* place its bytes have for the lexer: "ws" where whitespace is skipped before
\* a token, "key", "string", "comment", or "code" for the other bytes.  The
\* last documents fill one chunk, so that the tab is the first byte of the
\* second chunk.
Piece(ctx, text) == [ctx |-> ctx, text |-> text]
Filler == Piece("comment", <<"#">> \o Rep("c", YAML_CHUNK_SIZE - 1) \o <<CHAR_TAB, "d">>)
TabDocs ==
    { << Piece("ws", <<CHAR_TAB>>), Piece("key", K("a")), Piece("code", <<"1">> \o NL) >>,
      << Piece("key", K("a")), Piece("code", <<"1">> \o NL), Piece("ws", <<CHAR_TAB>>),
         Piece("key", K("b")), Piece("code", <<"2">> \o NL) >>,
      << Piece("key", <<"a", ":">>), Piece("ws", <<" ", CHAR_TAB>>),
         Piece("code", <<"1">> \o NL) >>,
      << Piece("key", K("a")), Piece("code", <<"[", "1", ",">>), Piece("ws", <<CHAR_TAB>>),
         Piece("code", <<"2", "]">> \o NL) >>,
      << Piece("key", K("a")), Piece("code", <<"1">>), Piece("ws", <<" ", CHAR_TAB>>),
         Piece("code", NL) >>,
      << Piece("key", K("a")), Piece("code", <<"&">>), Piece("ws", <<CHAR_TAB>>),
         Piece("code", <<"n", " ", "1">> \o NL) >>,
      << Piece("key", K("a")), Piece("string", <<"\"", "x", CHAR_TAB, "y", "\"">>),
         Piece("code", NL) >>,
      << Piece("key", K("a")), Piece("string", <<"'", "x", CHAR_TAB, "y", "'">>),
         Piece("code", NL) >>,
      << Piece("comment", <<"#", " ", "x", CHAR_TAB, "y">>), Piece("code", NL),
         Piece("key", K("a")), Piece("code", <<"1">> \o NL) >>,
      << Piece("key", K("a")), Piece("code", <<"1", " ">>),
         Piece("comment", <<"#", CHAR_TAB>>), Piece("code", NL) >>,
      << Piece("key", <<"a", CHAR_TAB, "b", ":", " ">>), Piece("code", <<"1">> \o NL) >>,
      << Piece("key", K("a")), Piece("code", <<"1">> \o NL) >>,
      << Piece("ws", <<" ", " ">>), Piece("key", K("a")), Piece("code", <<"1">> \o NL),
         Piece("ws", <<" ", " ">>), Piece("comment", <<"#", "c">>), Piece("code", NL) >>,
      << Filler, Piece("code", NL), Piece("key", K("a")), Piece("code", <<"1">> \o NL) >>,
      << Filler, Piece("code", NL), Piece("ws", <<" ">>) >>,
      << Filler, Piece("code", NL), Piece("key", K("a")), Piece("code", <<"1">>),
         Piece("ws", <<" ">>) >> }
TabFile(d) == Concat([i \in 1..Len(d) |-> d[i].text])
\* The places of the document's tabs.
TabPlaces(d) == {d[i].ctx : i \in {j \in 1..Len(d) : \E k \in 1..Len(d[j].text) :
                                                        d[j].text[k] = CHAR_TAB}}

\* A root map that has closed, followed by more text.
TrailMaps ==
    { <<"{">> \o K("a") \o <<"1", "}">>, <<"{", "}">>, K("a") \o <<"1">> \o NL \o <<"}">> }
TrailSeps == { <<" ">>, NL }
TrailTokens ==
    { K("k") \o <<"1">> \o NL, <<"5">> \o NL, <<"\"", "s", "\"">> \o NL,
      <<"'", "s", "'">>, <<"t", "r", "u", "e">> \o NL, <<"[">>, <<"]">>, <<"{">>, <<"}">>,
      <<",">>, <<"[", "1", "]">> \o NL, <<"{">> \o K("b") \o <<"2", "}">> \o NL,
      <<"&", "n", " ", "1">> \o NL, <<"*", "n">> \o NL }
TrailDocs == {[map |-> m, sep |-> e, more |-> t] :
                 m \in TrailMaps, e \in TrailSeps, t \in TrailTokens \cup {<<>>}}
TrailFile(d) == d.map \o d.sep \o d.more

\* Two map entries with a separator between them: in a brace-delimited map
\* at the top of the file, as a value, in a list and under an anchor, and in
\* the bare top-level map.
CommaOpens ==
    { [brace |-> TRUE, open |-> <<"{">>, close |-> <<"}">> \o NL],
      [brace |-> TRUE, open |-> K("v") \o <<"{">>, close |-> <<"}">> \o NL],
      [brace |-> TRUE, open |-> <<"[", "{">>, close |-> <<"}", "]">> \o NL],
      [brace |-> TRUE, open |-> K("v") \o <<"[", "{">>, close |-> <<"}", "]">> \o NL],
      [brace |-> TRUE, open |-> K("v") \o <<"&", "r", " ", "{">>, close |-> <<"}">> \o NL],
      [brace |-> TRUE, open |-> <<"&", "r", " ", "{">>, close |-> <<"}">> \o NL],
      [brace |-> FALSE, open |-> <<>>, close |-> NL] }
CommaSeps == { <<",", " ">>, <<",">> \o NL, NL \o <<",", " ">>, NL, <<" ">> }
CommaDocs == {[in |-> o, sep |-> e] : o \in CommaOpens, e \in CommaSeps}
CommaFile(d) == d.in.open \o K("a") \o <<"1">> \o d.sep \o K("b") \o <<"2">> \o d.in.close

\* Maps to look keys up in: a key that occurs twice, a key that is the start
\* of another key, nested maps and a list.
LookupFiles ==
    { K("a") \o <<"1">> \o NL \o K("a") \o <<"2">> \o NL \o K("b") \o <<"3">> \o NL,
      <<"a", "b", ":", " ", "1">> \o NL \o K("a") \o <<"2">> \o NL,
      K("a") \o <<"{">> \o K("a") \o <<"1", ",", " ">> \o K("b") \o <<"2", "}">> \o NL
             \o K("b") \o <<"[", "1", "]">> \o NL,
      <<"{">> \o K("a") \o <<"1", ",", " ">> \o K("a") \o <<"2", "}">> \o NL,
      K("z") \o <<"1">> \o NL }
LookupKeys ==
    { <<"a">>, <<"b">>, <<"a", "b">>, <<"z">>, <<>> }
    \cup {Rep("k", n) : n \in 1..STR_ALLOC_SIZE_BASE}
Dangling == {"kept", "lost", "trap"}

\* Scalar leaves: `key: value` lines, one key per line in the order a, b, c,
\* the last line with or without its newline.  A value is its text in the
\* file and the leaf it stands for.
NumberLeaf(text, neg, int, frac) ==
    [text |-> text, kind |-> "NODE_NUMBER",
     number |-> [neg |-> neg, int |-> int, frac |-> frac], string |-> <<>>, boolean |-> FALSE]
StringLeaf(quote, content) ==
    [text |-> <<quote>> \o content \o <<quote>>, kind |-> "NODE_STRING",
     number |-> <<>>, string |-> content, boolean |-> FALSE]
BooleanLeaf(text, b) ==
    [text |-> text, kind |-> "NODE_BOOLEAN", number |-> <<>>, string |-> <<>>, boolean |-> b]
LeafValues ==
    { NumberLeaf(<<"1">>, FALSE, 1, <<>>), NumberLeaf(<<"-", "1", ".", "5">>, TRUE, 1, <<"5">>),
      StringLeaf("\"", <<"h", "i">>), StringLeaf("'", <<"h", "i">>), StringLeaf("\"", <<>>),
      StringLeaf("\"", Rep("s", STR_ALLOC_SIZE_BASE + 1)),
      StringLeaf("'", Rep("s", STR_ALLOC_SIZE_BASE + 1)),
      StringLeaf("'", Rep("s", 2 * STR_ALLOC_SIZE_BASE + 1)),
      BooleanLeaf(<<"t", "r", "u", "e">>, TRUE), BooleanLeaf(<<"f", "a", "l", "s", "e">>, FALSE) }
MaxLines == 2
LeafKeys == <<"a", "b", "c">>
LeafDocs ==
    {[vals |-> v, nl |-> e] : v \in SeqsUpTo(LeafValues, MaxLines) \ {<<>>},
                              e \in {NL, <<>>}}
LeafFile(d) ==
    Concat([i \in 1..Len(d.vals) |->
              K(LeafKeys[i]) \o d.vals[i].text \o (IF i < Len(d.vals) THEN NL ELSE d.nl)])

\* Truncated files: every prefix of a document with a key, a number, a
\* comment, a double-quoted and a single-quoted string, a list and a map, and
\* files of one and of two whole chunks that end inside each kind of token.
CutText ==
    <<"a", "b", ":", " ", "1", "2">> \o NL \o <<"#", " ", "c">> \o NL
    \o K("q") \o <<"\"", "x", "\"">> \o NL \o K("r") \o <<"'", "y", "'">> \o NL
    \o K("l") \o <<"[", "1", "]">> \o NL \o K("m") \o <<"{">> \o K("k") \o <<"1", "}">> \o NL
CutTails ==
    { <<"a", "b">>, K("a") \o <<"1", "2">>, <<"#", "c">>, K("a") \o <<"\"", "x">>,
      K("a") \o <<"'", "y">>, K("a") \o <<"1">> \o NL, K("a") \o <<"t", "r", "u">> }
MaxChunks == 2
CutFiles ==
    {SubSeq(CutText, 1, n) : n \in 0..Len(CutText)}
    \cup {<<"#">> \o Rep("c", c * YAML_CHUNK_SIZE - Len(t) - 2) \o NL \o t :
            c \in 1..MaxChunks, t \in CutTails}

\* Keys: one `key: 1` line, first in the file, after another line or in a
\* flow map.  The keys start with number characters, with the letters of
\* true and false, hold colons, and have every length up to the key limit.
NumberKeys ==
    { <<"3", "r", "d">>, <<"1", ".", "2", ".", "x">>, <<"1", "_", "0", "0", "0">>,
      <<"-", "x">>, <<"+", "1", "a">>, <<"7", ":", "x">> }
BooleanKeys ==
    { <<"t", "r", "x">>, <<"f", "a", "b">>, <<"t">>, <<"f", "a", "l", "s">>, <<"t", "x">>,
      <<"t", "r", "u", "e", "i", "s", "h">>, <<"f", "a", "l", "s", "e", "_", "p">>,
      <<"t", "r", "u", "e", "r">>, <<"t", "r", "u", "e", ":", "x">> }
ColonKeys ==
    { <<"a", ":", "b">>, <<"a", ":", ":", "b">>, <<":", "a">>, <<"a", ":">>,
      <<"a", ":", "\n", "b">>, <<"a", ":", ":">> }
LengthKeys == {Rep("k", n) : n \in 1..(STR_ALLOC_SIZE_BASE + 1)}
                \cup {<<"t", "r", "u", "e">> \o Rep("k", n) :
                        n \in (STR_ALLOC_SIZE_BASE - 5)..(STR_ALLOC_SIZE_BASE - 4)}
WordKeys == NumberKeys \cup BooleanKeys \cup ColonKeys \cup LengthKeys
WordHeads == { <<>>, K("z") \o <<"1">> \o NL, <<"{">> }
WordEnds == { <<CHAR_COLON, CHAR_SPACE, "1">> \o NL, <<CHAR_COLON>> }
WordDocs == {[head |-> h, key |-> k, end |-> e] : h \in WordHeads, k \in WordKeys, e \in WordEnds}
WordFile(d) ==
    d.head \o d.key \o d.end
    \o (IF d.head = <<"{">> /\ d.end # <<CHAR_COLON>> THEN <<"}">> \o NL ELSE <<>>)

\* A token that is no key where parse_map expects one: at the start of a
\* flow map, after a comma, and on a line of the top-level map.  entries is
\* the number of entries read before it.
NoKeyHeads ==
    { [text |-> <<"{">>, entries |-> 0],
      [text |-> <<"{">> \o K("a") \o <<"1", ",", " ">>, entries |-> 1],
      [text |-> K("a") \o <<"1">> \o NL, entries |-> 1],
      [text |-> K("a") \o <<"'", "s", "'">> \o NL, entries |-> 1],
      [text |-> K("b") \o <<"{">>, entries |-> 0] }
NoKeyTokens ==
    { [text |-> <<"7">>, kind |-> "TOKEN_NUMBER"],
      [text |-> Pattern("t"), kind |-> "TOKEN_BOOLEAN"],
      [text |-> <<"\"", "s", "\"">>, kind |-> "TOKEN_STRING"],
      [text |-> <<"'", "s", "'">>, kind |-> "TOKEN_STRING_LIT"],
      [text |-> <<"[">>, kind |-> "TOKEN_OPEN_SEQ"],
      [text |-> <<"{">>, kind |-> "TOKEN_OPEN_MAP"] }
NoKeyTails == { NL, <<" ", "8">> \o NL, <<"}">> \o NL }
NoKeyDocs == {[head |-> h, token |-> t, tail |-> e] :
                h \in NoKeyHeads, t \in NoKeyTokens, e \in NoKeyTails}
NoKeyFile(d) == d.head.text \o d.token.text \o d.tail

\* A merge key in a map: the top-level map or a flow map, empty or with one
\* entry (whose value carries the anchor x); its value is a literal map
\* (keys names its keys) or something that is no map.
MergeHeads ==
    { [text |-> <<>>, entries |-> 0, close |-> NL],
      [text |-> K("a") \o <<"&", "x", " ", "1">> \o NL, entries |-> 1, close |-> NL],
      [text |-> <<"{">>, entries |-> 0, close |-> <<"}">> \o NL],
      [text |-> <<"{">> \o K("a") \o <<"&", "x", " ", "[", "1", "]", ",", " ">>,
       entries |-> 1, close |-> <<"}">> \o NL] }
MergeValues ==
    { [text |-> <<"{">> \o K("k") \o <<"1", "}">>, kind |-> "map", keys |-> << <<"k">> >>],
      [text |-> <<"{">> \o K("k") \o <<"1", ",", " ">> \o K("j") \o <<"'", "s", "'", "}">>,
       kind |-> "map", keys |-> << <<"k">>, <<"j">> >>],
      [text |-> <<"{", "}">>, kind |-> "map", keys |-> <<>>],
      [text |-> <<"7">>, kind |-> "TOKEN_NUMBER", keys |-> <<>>],
      [text |-> Pattern("f"), kind |-> "TOKEN_BOOLEAN", keys |-> <<>>],
      [text |-> <<"\"", "s", "\"">>, kind |-> "TOKEN_STRING", keys |-> <<>>],
      [text |-> <<"'", "s", "'">>, kind |-> "TOKEN_STRING_LIT", keys |-> <<>>],
      [text |-> <<"[", "1", "]">>, kind |-> "TOKEN_OPEN_SEQ", keys |-> <<>>],
      [text |-> <<"*", "x">>, kind |-> "TOKEN_ALIAS", keys |-> <<>>] }
MergeDocs ==
    {[head |-> h, value |-> v] : h \in MergeHeads, v \in MergeValues} \
        {d \in [head : MergeHeads, value : MergeValues] :
            d.value.kind = "TOKEN_ALIAS" /\ d.head.entries = 0}
MergeFile(d) == d.head.text \o <<"<", "<", ":", " ">> \o d.value.text \o d.head.close

\* Double-quoted values with a backslash before a quote; text is the content
\* with the escapes resolved.
EscapeBodies ==
    { [raw |-> <<"x", CHAR_BACKSLASH, CHAR_QUOTE_DOUBLE, "y">>,
       text |-> <<"x", CHAR_QUOTE_DOUBLE, "y">>],
      [raw |-> <<CHAR_BACKSLASH, CHAR_QUOTE_DOUBLE>>, text |-> <<CHAR_QUOTE_DOUBLE>>],
      [raw |-> <<"x", CHAR_BACKSLASH, CHAR_QUOTE_DOUBLE>>, text |-> <<"x", CHAR_QUOTE_DOUBLE>>],
      [raw |-> <<CHAR_BACKSLASH, CHAR_QUOTE_DOUBLE, "y", CHAR_BACKSLASH, CHAR_QUOTE_DOUBLE>>,
       text |-> <<CHAR_QUOTE_DOUBLE, "y", CHAR_QUOTE_DOUBLE>>],
      [raw |-> <<"x", CHAR_BACKSLASH, CHAR_BACKSLASH>>, text |-> <<"x", CHAR_BACKSLASH>>],
      [raw |-> <<"x", CHAR_BACKSLASH, "n", "y">>, text |-> <<"x", CHAR_NEWLINE, "y">>],
      [raw |-> <<"x", CHAR_BACKSLASH, CHAR_QUOTE_DOUBLE, ":", " ", "y">>,
       text |-> <<"x", CHAR_QUOTE_DOUBLE, ":", " ", "y">>] }
EscapeHeads == { K("a"), K("a") \o <<"[">>, <<"{">> \o K("a") }
EscapeDocs == {[head |-> h, body |-> b] : h \in EscapeHeads, b \in EscapeBodies}
EscapeFile(d) ==
    d.head \o <<CHAR_QUOTE_DOUBLE>> \o d.body.raw \o <<CHAR_QUOTE_DOUBLE>>
    \o (IF d.head = K("a") THEN <<>> ELSE IF Head(d.head) = "{" THEN <<"}">> ELSE <<"]">>)
    \o NL

\* Files that end inside a flow collection: items is the number of elements
\* read before the end, close the token that would close the collection.
OpenLists ==
    { [text |-> K("a") \o <<"[">>, items |-> 0],
      [text |-> K("a") \o <<"[", "1">>, items |-> 1],
      [text |-> K("a") \o <<"[", "1">> \o NL, items |-> 1],
      [text |-> K("a") \o <<"[", "1", ",">>, items |-> 1],
      [text |-> K("a") \o <<"[", "1", ",", " ", "'", "s", "'">>, items |-> 2],
      [text |-> K("a") \o <<"[", "[", "1", "]">>, items |-> 1],
      [text |-> K("a") \o <<"[", "[", "1", "]", ",", " ", "2", " ">>, items |-> 2] }
OpenMaps ==
    { [text |-> <<"{">>, items |-> 0],
      [text |-> K("a") \o <<"{">> \o NL, items |-> 0],
      [text |-> <<"{">> \o K("a") \o <<"1">>, items |-> 1],
      [text |-> <<"{">> \o K("a") \o <<"1">> \o NL, items |-> 1],
      [text |-> <<"{">> \o K("a") \o <<"1", ",">>, items |-> 1],
      [text |-> K("a") \o <<"{">> \o K("k") \o <<"'", "s", "'">>, items |-> 1],
      [text |-> <<"{">> \o K("a") \o <<"1", ",", " ">> \o K("b") \o <<"[", "2", "]">>,
       items |-> 2] }
OpenDocs ==
    {[text |-> d.text, items |-> d.items, close |-> "TOKEN_CLOSE_SEQ"] : d \in OpenLists}
    \cup {[text |-> d.text, items |-> d.items, close |-> "TOKEN_CLOSE_MAP"] : d \in OpenMaps}

\* Two entries of the top-level map with sep between the value of the first
\* and the key of the second.
LineValues ==
    { <<"1">>, Pattern("t"), <<"'", "s", "'">>, <<"\"", "s", "\"">>,
      <<"[", "1", "]">>, <<"{">> \o K("k") \o <<"1", "}">> }
LineSeps == { <<" ">>, <<" ", " ">>, NL, <<" ">> \o NL, NL \o NL }
LineDocs == {[value |-> v, sep |-> e] : v \in LineValues, e \in LineSeps}
LineFile(d) == K("a") \o d.value \o d.sep \o K("b") \o <<"2">> \o NL

\* A document after pad bytes of comment or of blank lines: the first token
\* starts before, on and after the end of the first chunk, and the document
\* with nothing but a key ends with the last byte of its first token.
ChunkPads ==
    {0, 3, YAML_CHUNK_SIZE - 2, YAML_CHUNK_SIZE - 1, YAML_CHUNK_SIZE, YAML_CHUNK_SIZE + 3,
     MaxChunks * YAML_CHUNK_SIZE + 3}
ChunkBodies ==
    { <<"a", "b">> \o K("c") \o <<"1">> \o NL, K("a") \o <<"1">> \o NL \o K("b") \o <<"2">> \o NL,
      <<"a", CHAR_COLON>>, <<"[", "1", ",", " ", "2", "]">> \o NL,
      <<"{">> \o K("k") \o <<"1", "}">> \o NL, <<"'", "s", "'">> \o NL }
ChunkDocs == {[pad |-> n, blank |-> b, body |-> t] :
                n \in ChunkPads, b \in BOOLEAN, t \in ChunkBodies}
ChunkFile(d) ==
    (IF d.pad = 0 THEN <<>>
     ELSE IF d.blank THEN Rep(CHAR_NEWLINE, d.pad)
     ELSE <<"#">> \o Rep("c", d.pad - 2) \o NL) \o d.body

JunkValues == {"null", "wild", "trap"}

(***************************************************************************)
(* The program: a caller parses one file and, when parse_yaml returned,    *)
(* releases the tree with free_yaml.                                       *)
(***************************************************************************)
NoLookup == [called |-> FALSE, node |-> NullNode, key |-> <<>>, ret |-> NullNode]

\* What parser_error did with its line buffer and its input: nothing yet.
NoReport == [called |-> FALSE, short |-> FALSE, fault |-> FALSE, lowest |-> 0,
             written |-> -1, prev |-> FALSE, next |-> FALSE]

Start(f, s, j) ==
    /\ file = f
    /\ got = NoLookup
    /\ report = NoReport
    /\ src = s
    /\ junk = j
    /\ pc = "start"
    /\ yp = InitParser(f, j)
    /\ root = NullNode

InitAlias ==
    \E d \in AliasDocs, j \in JunkValues : Start(AliasFile(d), [fam |-> "alias", doc |-> d], j)

InitFlow ==
    \E a \in ListAsts \cup MapAsts, ctx \in {"root", "value"} :
        Start(FlowFile(a, ctx), [fam |-> "flow", doc |-> a, ctx |-> ctx], "null")

InitNum ==
    \E t \in NumTexts : Start(NumFile(t), [fam |-> "num", doc |-> t], "null")

InitRoot ==
    \E f \in RootFiles, j \in JunkValues : Start(f, [fam |-> "root", doc |-> f], j)

InitLong ==
    \E f \in LongFiles : Start(f, [fam |-> "long", doc |-> f], "null")

InitQuote ==
    \E f \in QuoteFiles : Start(f, [fam |-> "quote", doc |-> f], "null")

InitUndef ==
    \E f \in UndefFiles, j \in JunkValues : Start(f, [fam |-> "undef", doc |-> f], j)

InitTab ==
    \E d \in TabDocs :
        Start(TabFile(d), [fam |-> "tab", doc |-> TabPlaces(d), long |-> Len(TabFile(d)) > YAML_CHUNK_SIZE], "null")

InitTrail ==
    \E d \in TrailDocs : Start(TrailFile(d), [fam |-> "trail", doc |-> d], "null")

InitComma ==
    \E d \in CommaDocs : Start(CommaFile(d), [fam |-> "comma", doc |-> d], "null")

InitLeaf ==
    \E d \in LeafDocs : Start(LeafFile(d), [fam |-> "leaf", doc |-> d], "null")

InitCut ==
    \E f \in CutFiles, j \in JunkValues : Start(f, [fam |-> "cut", doc |-> f], j)

InitWord ==
    \E d \in WordDocs : Start(WordFile(d), [fam |-> "word", doc |-> d], "null")

InitNoKey ==
    \E d \in NoKeyDocs : Start(NoKeyFile(d), [fam |-> "nokey", doc |-> d], "null")

InitMerge ==
    \E d \in MergeDocs : Start(MergeFile(d), [fam |-> "merge", doc |-> d], "null")

InitEscape ==
    \E d \in EscapeDocs : Start(EscapeFile(d), [fam |-> "escape", doc |-> d], "null")

InitOpen ==
    \E d \in OpenDocs : Start(d.text, [fam |-> "open", doc |-> d], "null")

InitLine ==
    \E d \in LineDocs : Start(LineFile(d), [fam |-> "line", doc |-> d], "null")

InitChunk ==
    \E d \in ChunkDocs : Start(ChunkFile(d), [fam |-> "chunk", doc |-> d], "null")

Init ==
    \/ InitAlias \/ InitFlow \/ InitNum \/ InitRoot \/ InitLong \/ InitQuote \/ InitUndef
    \/ InitTab \/ InitTrail \/ InitComma \/ InitLeaf \/ InitCut
    \/ InitWord \/ InitNoKey \/ InitMerge \/ InitEscape \/ InitOpen \/ InitLine \/ InitChunk

ParseYaml ==
    /\ pc = "start"
    /\ yp' = call("parse_yaml", file, junk)
    /\ pc' = IF Ok(yp') THEN "parsed" ELSE IF yp'.err.kind = "HANG" THEN "hung" ELSE "exited"
    /\ root' = IF Ok(yp') THEN yp'.ret ELSE NullNode
    /\ UNCHANGED <<file, src, junk, got, report>>

FreeYaml ==
    /\ pc = "parsed"
    /\ yp' = call("free_yaml", yp, root)
    /\ pc' = "freed"
    /\ UNCHANGED <<file, src, junk, root, got, report>>

Next == ParseYaml \/ FreeYaml

Spec == Init /\ [][Next]_vars

\* A caller that looks keys up in the tree parse_yaml returned.
InitLookup ==
    \E f \in LookupFiles : Start(f, [fam |-> "lookup", doc |-> f], "null")

InitGet == InitLookup \/ InitLong \/ InitRoot \/ InitComma

MapGetNode ==
    /\ pc = "parsed"
    /\ \E node \in 0..Len(yp.heap), key \in LookupKeys, d \in Dangling :
          got' = [called |-> TRUE, node |-> node, key |-> key,
                  ret |-> map_get_node([yp EXCEPT !.dangling = d], node, key)]
    /\ UNCHANGED <<file, src, junk, pc, yp, root, report>>

NextGet == ParseYaml \/ MapGetNode

SpecGet == InitGet /\ [][NextGet]_vars

(***************************************************************************)
(* Diagnostics: parser_error's search for the lines around the error.     *)
(* Memory is the input with its terminator, the bytes in front of it       *)
(* (before[k] is input[-k]) and the bytes behind the terminator; where no  *)
(* byte is given in front, the address is not mapped.                      *)
(***************************************************************************)
LINE_BUFFER_MAX_LENGTH == 256
LINE_BUFFER_CLAMP(x) == IF x > LINE_BUFFER_MAX_LENGTH THEN LINE_BUFFER_MAX_LENGTH ELSE x
UNMAPPED == "UNMAPPED"
Mem(m, i) ==
    IF i < 0 THEN IF -i <= Len(m.before) THEN m.before[-i] ELSE UNMAPPED
    ELSE IF i < Len(m.input) THEN m.input[i + 1]
    ELSE IF i = Len(m.input) \/ i - Len(m.input) > Len(m.after) THEN CHAR_EOF
    ELSE m.after[i - Len(m.input)]

\* while (s > 0 && input[s - 1] != '\n') s--; on a size_t that has wrapped
\* below zero s > 0 is true.  The loop stops at the first index from s down
\* at which its condition fails (or the read faults).
line_start(m, s) ==
    LET stops == {t \in (-(Len(m.before) + 1))..s :
                    t = 0 \/ Mem(m, t - 1) \in {CHAR_NEWLINE, UNMAPPED}}
    IN  CHOOSE t \in stops : \A u \in stops : u <= t
\* while (input[e] != '\n' && input[e] != '\0') e++;
line_end(m, e) ==
    LET stops == {t \in e..Max(e, Len(m.input) + Len(m.after) + 1) :
                    Mem(m, t) \in {CHAR_NEWLINE, CHAR_EOF}}
    IN  CHOOSE t \in stops : \A u \in stops : t <= u

\* COPY_LINE (line_buffer, off, len): the highest index of the buffer written.
COPY_LINE(len) == LINE_BUFFER_CLAMP(len)

\* The report has the lowest index of input read or computed (lowest), the
\* highest index of line_buffer written (written), and whether a line before
\* and a line after the error line were printed.
report_lines(m, pos, len) ==
    LET errln_start == line_start(m, pos)
        errln_end == line_end(m, pos)
        errln_len == errln_end - errln_start
        prevln_start == line_start(m, errln_start - 1)
        prevln_len == errln_start - prevln_start - 1
        fault == prevln_start # 0 /\ Mem(m, prevln_start - 1) = UNMAPPED
        prev == prevln_len > 0 /\ prevln_len < LINE_BUFFER_MAX_LENGTH
        column == pos - errln_start
        nextln_start == errln_end + 1
        nextln_end == line_end(m, nextln_start)
        nextln_len == nextln_end - nextln_start
        next == nextln_len > 0 /\ nextln_len < LINE_BUFFER_MAX_LENGTH
    IN  IF errln_len < 1 \/ errln_len > LINE_BUFFER_MAX_LENGTH
        THEN [NoReport EXCEPT !.called = TRUE, !.short = TRUE]
        ELSE IF fault
        THEN [NoReport EXCEPT !.called = TRUE, !.fault = TRUE, !.lowest = prevln_start - 1]
        ELSE [called |-> TRUE, short |-> FALSE, fault |-> FALSE,
              lowest |-> IF prevln_start = 0 THEN 0 ELSE prevln_start - 1,
              written |-> Max(Max(IF prev THEN COPY_LINE(prevln_len) ELSE -1,
                                  COPY_LINE(errln_len)),
                              Max(len + column, IF next THEN COPY_LINE(nextln_len) ELSE -1)),
              prev |-> prev, next |-> next]

\* Inputs of one or more lines of x; the error is at the start or at the end
\* of line number line, over len bytes.
MaxDiagLines == 2
DiagLengths == {0, 1, LINE_BUFFER_MAX_LENGTH - 1, LINE_BUFFER_MAX_LENGTH,
                LINE_BUFFER_MAX_LENGTH + 1}
DiagBefore == { <<>>, <<"y", CHAR_NEWLINE>>, <<"y", "y", "z", CHAR_NEWLINE>> }
DiagAfter == { <<>>, <<"z">> }
RECURSIVE DiagText(_, _)
DiagText(lens, trail) ==
    IF lens = <<>> THEN <<>>
    ELSE Rep("x", Head(lens))
         \o (IF Len(lens) > 1 \/ trail THEN NL ELSE <<>>)
         \o DiagText(Tail(lens), trail)
DiagDocs ==
    {d \in [lens : UNION {[1..n -> DiagLengths] : n \in 1..MaxDiagLines},
            trail : BOOLEAN, line : 1..MaxDiagLines, atEnd : BOOLEAN, len : 0..2,
            before : DiagBefore, after : DiagAfter] :
        /\ d.line <= Len(d.lens)
        /\ d.len = 2 => ~d.atEnd /\ d.lens[d.line] >= 2}
\* The position of the error and the length of its token.
DiagPos(d) ==
    SumSeq([i \in 1..(d.line - 1) |-> d.lens[i] + 1]) + (IF d.atEnd THEN d.lens[d.line] ELSE 0)
DiagLen(d) == IF d.len = 2 THEN d.lens[d.line] ELSE d.len
DiagMem(d) == [input |-> DiagText(d.lens, d.trail), before |-> d.before, after |-> d.after]

InitDiag ==
    \E d \in DiagDocs :
        /\ Start(DiagText(d.lens, d.trail), [fam |-> "diag", doc |-> d], "null")

ParserError ==
    /\ pc = "start" /\ src.fam = "diag"
    /\ report' = report_lines(DiagMem(src.doc), DiagPos(src.doc), DiagLen(src.doc))
    /\ pc' = "exited"
    /\ UNCHANGED <<file, src, junk, yp, root, got>>

SpecDiag == InitDiag /\ [][ParserError]_vars

(***************************************************************************)
(* Views of the tree used by the properties.                               *)
(***************************************************************************)
Nodes == 1..Len(yp.heap)
Kids(n) == Children(yp.heap[n])

RECURSIVE Reach(_)
Reach(n) == {n} \cup UNION {Reach(Kids(n)[i]) : i \in 1..Len(Kids(n))}

\* The slots (parent, index) of the tree under the root that hold node t.
Slots(t) ==
    {x \in UNION {{<<n, i>> : i \in 1..Len(Kids(n))} : n \in Reach(root)} :
        Kids(x[1])[x[2]] = t}


\* The number of paths from node n down to node t.
RECURSIVE PathCount(_, _)
PathCount(n, t) ==
    IF n = t THEN 1
    ELSE SumSeq([i \in 1..Len(Kids(n)) |-> PathCount(Kids(n)[i], t)])

KeyTexts(n) == [i \in 1..Len(yp.heap[n].entries) |-> CStr(yp, yp.heap[n].entries[i].key)]
Vals(n) == [i \in 1..Len(yp.heap[n].entries) |-> yp.heap[n].entries[i].val]
Uses(i) == src.fam = "alias" /\ \E k \in 1..Len(src.doc.uses) : src.doc.uses[k] = i

\* The node the latest completed anchor of this name bound, or nullptr.
RECURSIVE BoundTo(_, _)
BoundTo(binds, name) ==
    IF binds = <<>> THEN NullNode
    ELSE IF binds[Len(binds)].name = name THEN binds[Len(binds)].node
         ELSE BoundTo(SubSeq(binds, 1, Len(binds) - 1), name)

(***************************************************************************)
(* C1: after a successful parse, free_yaml(root) frees every node created  *)
(* during the parse exactly once: none twice, none visited after its free, *)
(* none left unfreed.                                                      *)
(***************************************************************************)
C1_EveryNodeFreedOnce ==
    pc = "freed" =>
        /\ \A n \in Nodes : yp.heap[n].freed = 1
        /\ "use_after_free" \notin yp.ub

\* The claim's own cases are freed exactly once: an alias to a collection,
\* several aliases to one anchor, one base map merged into two maps.
C1_SharedCasesFreed ==
    /\ pc = "freed"
    /\ src.fam = "alias" /\ src.doc.base = 3 /\ src.doc.uses = <<2, 3>>
    /\ \A n \in Nodes : yp.heap[n].freed = 1

(***************************************************************************)
(* C2: every alias *name whose name an earlier anchor &name bound is       *)
(* dereferenced to the very node the anchor bound, and that node's rcount  *)
(* is one higher than before; after `b: &n 5` and `x: *n` the entries b    *)
(* and x hold the same node, with rcount >= 1.                             *)
(***************************************************************************)
C2_AliasReturnsBoundNode ==
    /\ \A k \in 1..Len(yp.derefs) :
          LET d == yp.derefs[k]
          IN  /\ d.node # NullNode
              /\ d.node = BoundTo(d.binds, d.name)
              /\ d.after = d.before + 1
    /\ yp.err.kind = "UNDEFINED_ALIAS" => BoundTo(yp.binds, yp.err.text) = NullNode
    /\ (pc = "parsed" /\ Uses(1) /\ ~Uses(5) /\ src.doc.base # Len(BaseLines)) =>
          /\ map_get_node(yp, root, <<"x">>) = map_get_node(yp, root, <<"b">>)
          /\ yp.heap[map_get_node(yp, root, <<"x">>)].rcount >= 1

\* Two aliases of one anchor were dereferenced to the node it bound.
C2_TwoAliasesOfOneAnchor ==
    /\ pc = "parsed"
    /\ Len(yp.derefs) = 2
    /\ yp.derefs[1].node = yp.derefs[2].node
    /\ yp.derefs[2].before = 1 /\ yp.derefs[2].after = 2
    /\ yp.derefs[2].node = BoundTo(yp.binds, <<"n">>)

C4_MergeCopiesEntries ==
    pc = "parsed" =>
        /\ \A k \in 1..Len(yp.merges) :
              LET m == yp.merges[k]
                  D == yp.heap[m.dst].entries
                  n == Len(m.srcEntries)
              IN  m.viaAlias =>
                    /\ Len(D) >= m.at + n
                    /\ SubSeq(D, 1, m.at) = m.dstBefore
                    /\ \A j \in 1..n :
                          /\ D[m.at + j].val = m.srcEntries[j].val
                          /\ D[m.at + j].key = m.srcEntries[j].key
                          /\ CStr(yp, D[m.at + j].key) = CStr(yp, yp.heap[m.src].entries[j].key)
                    /\ yp.heap[m.src].entries = m.srcEntries
        /\ (src.fam = "alias" /\ src.doc.base \in {2, 3, 5} /\ src.doc.uses = <<2>>) =>
              LET c == map_get_node(yp, root, <<"c">>)
                  b == map_get_node(yp, root, <<"b">>)
              IN  /\ KeyTexts(c) = KeyTexts(b) \o << <<"e">> >>
                  /\ SubSeq(Vals(c), 1, Len(Vals(b))) = Vals(b)
        /\ (src.fam = "alias" /\ src.doc.base \in {2, 3, 5} /\ src.doc.uses = <<3>>) =>
              LET c == map_get_node(yp, root, <<"c">>)
                  b == map_get_node(yp, root, <<"b">>)
              IN  /\ KeyTexts(c) = << <<"e">> >> \o KeyTexts(b)
                  /\ Tail(Vals(c)) = Vals(b)

\* `c: {<<: *n, e: 1}` with n bound to {k: 1, j: 2} gave c the keys k, j, e.
C4_MergeThenOwnEntry ==
    /\ pc = "parsed"
    /\ Len(yp.merges) = 1 /\ yp.merges[1].viaAlias
    /\ Len(yp.merges[1].srcEntries) = 2
    /\ KeyTexts(yp.merges[1].dst) = << <<"k">>, <<"j">>, <<"e">> >>

C7_SlicesStayValid ==
    pc = "parsed" =>
        \A n \in Reach(root) :
            /\ \A i \in 1..Len(yp.heap[n].entries) :
                  PtrValid(yp, yp.heap[n].entries[i].key, 1)
            /\ yp.heap[n].kind = "NODE_STRING" => PtrValid(yp, yp.heap[n].string, 0)

\* Keys and a string that share arena buffers were stored and are all valid.
C7_ShortSlicesValid ==
    /\ pc = "parsed"
    /\ src.fam = "long"
    /\ Len(yp.heap[root].entries) = 2
    /\ \A i \in 1..2 : PtrValid(yp, yp.heap[root].entries[i].key, 1)

(***************************************************************************)
(* C8: every well-formed flow map {k1: v1, k2: v2, ...} is accepted and    *)
(* its Map node has one entry per source pair, in source order, duplicate  *)
(* keys kept as separate entries, each entry holding its key text and the  *)
(* node of its value.                                                      *)
(***************************************************************************)
RECURSIVE Matches(_, _)
Matches(n, a) ==
    LET h == yp.heap[n]
    IN  CASE a.t = "num" ->
               /\ h.kind = "NODE_NUMBER"
               /\ h.number = [neg |-> FALSE, int |-> DigitVal(a.c), frac |-> <<>>]
          [] a.t = "list" ->
               /\ h.kind = "NODE_LIST"
               /\ Len(h.items) = Len(a.q)
               /\ \A i \in 1..Len(a.q) : Matches(h.items[i], a.q[i])
          [] a.t = "map" ->
               /\ h.kind = "NODE_MAP"
               /\ Len(h.entries) = Len(a.q)
               /\ \A i \in 1..Len(a.q) :
                     /\ CStr(yp, h.entries[i].key) = <<a.q[i].k>>
                     /\ Matches(h.entries[i].val, a.q[i])

\* The node built for the document's flow collection.
FlowNode == IF src.ctx = "root" THEN root ELSE map_get_node(yp, root, <<"v">>)

C8_FlowMapEntries ==
    (src.fam = "flow" /\ src.doc.t = "map" /\ pc # "start") =>
        /\ Ok(yp)
        /\ pc = "parsed" => Matches(FlowNode, src.doc)

\* {a: 1, a: {a: 1, a: 2}} was parsed: a duplicate key and a nested map.
C8_DuplicateKeysKept ==
    /\ pc = "parsed" /\ src.fam = "flow"
    /\ src.doc = Map(<<Pair("a", Num("1")),
                       Pair("a", Map(<<Pair("a", Num("1")), Pair("a", Num("2"))>>))>>)
    /\ KeyTexts(FlowNode) = << <<"a">>, <<"a">> >>
    /\ Vals(FlowNode)[1] # Vals(FlowNode)[2]

(***************************************************************************)
(* C9: every well-formed flow list, lists nested in lists included, is     *)
(* accepted and its List node holds one child per source element in source *)
(* order; a nested list is one child, itself a List with its own elements  *)
(* in order.                                                               *)
(***************************************************************************)
C9_FlowListItems ==
    (src.fam = "flow" /\ src.doc.t = "list" /\ pc # "start") =>
        /\ Ok(yp)
        /\ pc = "parsed" => Matches(FlowNode, src.doc)

\* v: [2, [1, 2]] was parsed: the nested list is the second child.
C9_NestedListIsOneChild ==
    /\ pc = "parsed" /\ src.fam = "flow" /\ src.ctx = "value"
    /\ src.doc = List(<<Num("2"), List(<<Num("1"), Num("2")>>)>>)
    /\ Len(yp.heap[FlowNode].items) = 2
    /\ yp.heap[yp.heap[FlowNode].items[2]].kind = "NODE_LIST"
    /\ Len(yp.heap[yp.heap[FlowNode].items[2]].items) = 2

(***************************************************************************)
(* C10: a number text with interior `_` separators lexes as a number token *)
(* and parses to the Number of the same text with the separators removed:  *)
(* `x: 1_0` gives what `x: 10` gives.                                      *)
(***************************************************************************)
RECURSIVE Strip(_)
Strip(t) ==
    IF t = <<>> THEN <<>>
    ELSE (IF Head(t) = "_" THEN <<>> ELSE <<Head(t)>>) \o Strip(Tail(t))

\* The Number under key x in the parse of `x: <text>`, or <<>> when the
\* file is not accepted or x is no Number.
NumberOf(t) ==
    LET r == call("parse_yaml", NumFile(t), "null")
        x == IF Ok(r) THEN map_get_node(r, r.ret, <<"x">>) ELSE NullNode
    IN  IF x # NullNode /\ r.heap[x].kind = "NODE_NUMBER" THEN r.heap[x].number ELSE <<>>

C10_SeparatorsIgnored ==
    (src.fam = "num" /\ pc # "start"
        /\ "_" \in {src.doc[i] : i \in 2..(Len(src.doc) - 1)}
        /\ src.doc[1] # "_" /\ src.doc[Len(src.doc)] # "_"
        /\ NumberOf(Strip(src.doc)) # <<>>) =>
            /\ Ok(yp)
            /\ NumberOf(src.doc) = NumberOf(Strip(src.doc))

(***************************************************************************)
(* C11: every quoted string, double- or single-quoted, whose closing       *)
(* delimiter does not occur before the next newline or the end of the file *)
(* raises UNCLOSED_QUOTE and produces no token, wherever in the file it    *)
(* starts.                                                                 *)
(***************************************************************************)
\* The 1-based index of the byte that ends the quoted text opened at index i
\* of f: the closing quote, or the newline or Len(f) + 1 the text runs into.
\* In single quotes a doubled quote is text.
RECURSIVE QuoteEnd(_, _, _)
QuoteEnd(f, j, quote) ==
    IF j > Len(f) \/ f[j] = CHAR_NEWLINE THEN j
    ELSE IF f[j] # quote THEN QuoteEnd(f, j + 1, quote)
    ELSE IF quote = CHAR_QUOTE_SINGLE /\ j + 1 <= Len(f) /\ f[j + 1] = quote
         THEN QuoteEnd(f, j + 2, quote)
         ELSE j
Unclosed(f, at, quote) ==
    LET j == QuoteEnd(f, at + 2, quote) IN j > Len(f) \/ f[j] # quote

C11_UnclosedQuoteRaised ==
    pc # "start" =>
        \A i \in 1..Len(yp.quotes) :
            Unclosed(file, yp.quotes[i].at, yp.quotes[i].quote) =>
                /\ ~yp.quotes[i].token
                /\ yp.err.kind = "UNCLOSED_QUOTE"

\* An unclosed string that starts after the first byte of the file is
\* rejected, at a newline and at the end of the file.
C11_UnclosedAfterFirstByte ==
    (pc # "start" /\ yp.quotes # <<>> /\ yp.quotes[Len(yp.quotes)].at > 0
        /\ Unclosed(file, yp.quotes[Len(yp.quotes)].at, yp.quotes[Len(yp.quotes)].quote)) =>
            /\ ~yp.quotes[Len(yp.quotes)].token
            /\ yp.err.kind = "UNCLOSED_QUOTE"


(***************************************************************************)
(* C12: an alias of a name that no completed anchor has bound raises       *)
(* UNDEFINED_ALIAS, also inside the value of an anchor that is still being *)
(* parsed; no node is returned and no reference count changes.             *)
(***************************************************************************)
BoundNames(binds) == {binds[i].name : i \in 1..Len(binds)}
UnboundLookup(l) == l.name \notin BoundNames(l.binds)

C12_UnboundAliasRaises ==
    pc # "start" =>
        \A i \in 1..Len(yp.lookups) :
            UnboundLookup(yp.lookups[i]) =>
                /\ ~yp.lookups[i].returned
                /\ yp.lookups[i].err = "UNDEFINED_ALIAS"
                /\ yp.lookups[i].rcAfter = yp.lookups[i].rcBefore
                /\ pc = "exited" /\ root = NullNode

\* The same with no anchor open when the alias is read.
C12_UnboundOutsideAnchors ==
    pc # "start" =>
        \A i \in 1..Len(yp.lookups) :
            (UnboundLookup(yp.lookups[i]) /\ yp.lookups[i].len = Len(yp.lookups[i].binds)) =>
                /\ yp.lookups[i].err = "UNDEFINED_ALIAS"
                /\ yp.lookups[i].rcAfter = yp.lookups[i].rcBefore
                /\ pc = "exited" /\ root = NullNode

(***************************************************************************)
(* C13: an anchor whose name a completed anchor has bound already raises   *)
(* REDEFINED_ALIAS before its value is parsed: nothing more is read, no    *)
(* node is created and the alias table stays as it was.                    *)
(***************************************************************************)
Redefines(a) == a.name \in BoundNames(a.binds)
Rejected(a) ==
    /\ a.err = "REDEFINED_ALIAS"
    /\ a.posAfter = a.posBefore
    /\ a.heapAfter = a.heapBefore
    /\ a.tableAfter = a.tableBefore

C13_BoundNameRedefined ==
    pc # "start" =>
        \A i \in 1..Len(yp.anchors) :
            Redefines(yp.anchors[i]) => Rejected(yp.anchors[i]) /\ pc = "exited"

\* The same for parses in which no unwritten alias slot has been read.
C13_RedefinedWhenTableWritten ==
    pc # "start" =>
        \A i \in 1..Len(yp.anchors) :
            (Redefines(yp.anchors[i]) /\ yp.anchors[i].ub = {}) =>
                Rejected(yp.anchors[i]) /\ pc = "exited"

C13_SimpleRedefinition ==
    /\ pc = "exited" /\ src.fam = "alias" /\ src.doc.base = 1
    /\ \E i \in 1..Len(yp.anchors) : Redefines(yp.anchors[i]) /\ Rejected(yp.anchors[i])

(***************************************************************************)
(* C14: TAB_INDENTATION is raised exactly when a tab of the input is the   *)
(* next unread byte where the lexer skips whitespace before a token; tabs  *)
(* in quoted strings, in comments and in key text do not raise it, and an  *)
(* input without tabs never raises it.                                     *)
(***************************************************************************)
TabRaised == yp.err.kind = "TAB_INDENTATION"
UnreadTab == FilePos(yp) < Len(file) /\ file[FilePos(yp) + 1] = CHAR_TAB

C14_TabIndentation ==
    pc # "start" =>
        /\ TabRaised => UnreadTab
        /\ src.fam = "tab" => (TabRaised <=> "ws" \in src.doc)

\* The same for the files that fit one chunk.
C14_TabInOneChunk ==
    (pc # "start" /\ Len(file) <= YAML_CHUNK_SIZE) =>
        /\ TabRaised => UnreadTab
        /\ src.fam = "tab" => (TabRaised <=> "ws" \in src.doc)

C14_TabSkippedRaised == pc = "exited" /\ src.fam = "tab" /\ TabRaised /\ UnreadTab

(***************************************************************************)
(* C15: once the root map has closed the next token must be the end of the *)
(* file: any other token raises UNEXPECTED_TOKEN (expecting the end of the *)
(* file) and no tree is returned.                                          *)
(***************************************************************************)
RootMapClosed ==
    /\ yp.rootdone /\ yp.first.kind \in {"TOKEN_OPEN_MAP", "TOKEN_KEY"}
TokenAfterRoot == yp.after.kind \notin {"TOKEN_EOF", "TOKEN_UNKNOWN"}
NoTreeUnexpected ==
    /\ pc = "exited" /\ root = NullNode
    /\ yp.err.kind = UNEXPECTED_TOKEN /\ yp.err.exp = "TOKEN_EOF"

C15_OnlyEofAfterRootMap ==
    pc # "start" =>
        /\ (RootMapClosed /\ TokenAfterRoot) => NoTreeUnexpected
        /\ (src.fam = "trail" /\ src.doc.more # <<>>) => NoTreeUnexpected

C15_TokenAfterRootMap ==
    /\ pc = "exited" /\ src.fam = "trail" /\ src.doc.more # <<>>
    /\ RootMapClosed /\ TokenAfterRoot /\ NoTreeUnexpected

(***************************************************************************)
(* C16: the nesting counter decides the comma rules.  In a map opened with *)
(* `{` the counter is above the root level and an entry after the first    *)
(* that no comma precedes raises UNEXPECTED_TOKEN expecting a comma; in    *)
(* the bare top-level map the counter is at the root level and a comma     *)
(* between entries raises UNEXPECTED_TOKEN expecting a key.                *)
(***************************************************************************)
RootLevel == 1
HasComma(sep) == \E i \in 1..Len(sep) : sep[i] = CHAR_COMMA
Unexpected(exp) ==
    /\ pc = "exited" /\ yp.err.kind = UNEXPECTED_TOKEN /\ yp.err.exp = exp
CounterFollowsBraces(ms) ==
    \A i \in 1..Len(ms) :
        IF ms[i].opened = "TOKEN_OPEN_MAP" THEN ms[i].mark > RootLevel
        ELSE ms[i].mark = RootLevel
CommaRule(d) ==
    IF d.in.brace
    THEN IF HasComma(d.sep) THEN pc \in {"parsed", "freed"} ELSE Unexpected("TOKEN_COMMA")
    ELSE IF HasComma(d.sep) THEN Unexpected("TOKEN_KEY")
         ELSE d.sep = NL => pc \in {"parsed", "freed"}

C16_CommaRules ==
    pc # "start" =>
        /\ CounterFollowsBraces(yp.maps)
        /\ src.fam = "comma" => CommaRule(src.doc)

\* The same for the files that do not start with an anchor.
C16_CommaRulesBelowRoot ==
    (pc # "start" /\ yp.first.kind # "TOKEN_ANCHOR") =>
        /\ CounterFollowsBraces(yp.maps)
        /\ src.fam = "comma" => CommaRule(src.doc)

\* `&r {a: 1, b: 2}` at the top of the file is rejected at its comma.
C16_RootAnchorComma ==
    /\ src.fam = "comma" /\ yp.first.kind = "TOKEN_ANCHOR" /\ HasComma(src.doc.sep)
    /\ Unexpected("TOKEN_KEY") /\ yp.err.got = "TOKEN_COMMA"

(***************************************************************************)
(* C17: fail-fast.  Once parser_error has been called it never returns:    *)
(* from then on the process has exited with a non-zero status, no further  *)
(* token has been read, no node has been created and there is no tree.     *)
(***************************************************************************)
Raised == yp.raised # <<>>
Stopped ==
    /\ Len(yp.raised) = 1
    /\ yp.ntok = yp.raised[1].ntok
    /\ FilePos(yp) = yp.raised[1].pos
    /\ Len(yp.heap) = yp.raised[1].nodes
    /\ yp.err.kind = yp.raised[1].kind
    /\ yp.status \in {"EXIT_FAILURE", "SIGSEGV"}

C17_FailFast == [](Raised => [](pc = "exited" /\ root = NullNode /\ Stopped))

C17_RaisedAfterTokens == pc = "exited" /\ Raised /\ yp.ntok > 2 /\ Len(yp.heap) > 1

(***************************************************************************)
(* C18: map_get_node returns the value of the first entry, in insertion    *)
(* order, whose key is the argument byte for byte; it returns null for a   *)
(* null node, for a node that is no map and for a key no entry has; it     *)
(* changes nothing in the tree.                                            *)
(***************************************************************************)
FirstWith(node, key) ==
    LET es == yp.heap[node].entries
        I == {i \in 1..Len(es) : KeyWritten(yp, es[i].key) = key}
    IN  IF I = {} THEN NullNode
        ELSE es[CHOOSE i \in I : \A j \in I : i <= j].val
Expected(node, key) ==
    IF node = NullNode \/ yp.heap[node].kind # "NODE_MAP" THEN NullNode
    ELSE FirstWith(node, key)
KeysValid(node) ==
    node # NullNode =>
        \A i \in 1..Len(yp.heap[node].entries) : PtrValid(yp, yp.heap[node].entries[i].key, 0)

C18_LookupFindsFirst == got.called => got.ret = Expected(got.node, got.key)

\* The same for the maps whose key pointers are valid.
C18_LookupWithValidKeys ==
    (got.called /\ KeysValid(got.node)) => got.ret = Expected(got.node, got.key)

\* A lookup leaves the parser's state and the tree as they are.
C18_LookupChangesNothing == [][got' # got => (yp' = yp /\ root' = root)]_vars

C18_SecondOfTwoSkipped ==
    /\ got.called /\ got.ret # NullNode /\ src.fam = "lookup"
    /\ \E i \in 2..Len(yp.heap[got.node].entries) :
          /\ KeyWritten(yp, yp.heap[got.node].entries[i].key) = got.key
          /\ yp.heap[got.node].entries[i].val # got.ret

(***************************************************************************)
(* C19: an empty file never yields a tree.  parse_yaml ends the process    *)
(* with an error as soon as its first read has reported the end of the     *)
(* file: no token is read and no node is created.                          *)
(***************************************************************************)
C19_EmptyFileNoTree ==
    (file = <<>> /\ pc # "start") =>
        /\ pc = "exited" /\ root = NullNode
        /\ yp.err = [kind |-> "DIE", exp |-> "", got |-> "File is empty", text |-> <<>>]
        /\ yp.status = "EXIT_FAILURE"
        /\ yp.reof /\ yp.ntok = 0 /\ yp.heap = <<>> /\ yp.raised = <<>>

C19_EmptyFileExited == file = <<>> /\ pc = "exited" /\ yp.reof

(***************************************************************************)
(* C20: in a document of `key: value` lines every value gives a leaf of    *)
(* the kind of its token, in the order of the lines: a number a Number, a  *)
(* quoted string a String with the text between the quotes, and true or    *)
(* false a Boolean that is true exactly for `true`.                        *)
(***************************************************************************)
LeafIs(n, v) ==
    /\ yp.heap[n].kind = v.kind
    /\ v.kind = "NODE_NUMBER" => yp.heap[n].number = v.number
    /\ v.kind = "NODE_STRING" => CStr(yp, yp.heap[n].string) = v.string
    /\ v.kind = "NODE_BOOLEAN" => yp.heap[n].boolean = v.boolean
    /\ Kids(n) = <<>>
LeavesOf(d) ==
    /\ yp.heap[root].kind = "NODE_MAP"
    /\ KeyTexts(root) = [i \in 1..Len(d.vals) |-> <<LeafKeys[i]>>]
    /\ \A i \in 1..Len(d.vals) : LeafIs(Vals(root)[i], d.vals[i])

C20_ScalarLeaves ==
    (src.fam = "leaf" /\ pc # "start") => pc \in {"parsed", "freed"} /\ LeavesOf(src.doc)

\* The same for the documents whose String leaves point to live text.
StringsValid ==
    \A n \in Nodes : yp.heap[n].kind = "NODE_STRING" => PtrValid(yp, yp.heap[n].string, 0)
C20_LeavesWithValidText ==
    (src.fam = "leaf" /\ pc # "start") =>
        /\ pc \in {"parsed", "freed"}
        /\ StringsValid => LeavesOf(src.doc)

C20_NumberThenString ==
    /\ src.fam = "leaf" /\ pc = "parsed"
    /\ file = K("a") \o <<"1">> \o NL \o K("b") \o <<"\"", "h", "i", "\"">> \o NL
    /\ LeavesOf(src.doc)


(***************************************************************************)
(* C21: parse_yaml terminates on every finite file: it returns a root     *)
(* node or the process exits through a diagnostic, also for files without *)
(* a final newline, files that end inside a key, a number, a comment or a *)
(* quoted string, and files whose length is a multiple of the chunk size. *)
(***************************************************************************)
\* The call of parse_yaml runs: ParseYaml is enabled in every state with
\* pc = "start" and is the only step that leaves it, so fairness is stated on
\* that step as pc shows it.  "hung" is a parser that runs forever.
Leave == pc = "start" /\ pc' \in {"parsed", "exited", "hung"}
SpecLive == Init /\ [][Next]_vars /\ WF_pc(Leave)

Returned == pc \in {"parsed", "freed"} /\ root # NullNode
\* parser_error or die was entered and the process has ended, with no tree.
Diagnosed ==
    /\ pc = "exited" /\ root = NullNode
    /\ Raised \/ yp.err.kind = "DIE"
    /\ yp.status # "none"
\* The process was ended by a signal outside the diagnostics.
Crashed == pc = "exited" /\ root = NullNode /\ yp.err.kind = "SEGV" /\ ~Raised

C21_Terminates == <>(Returned \/ Diagnosed)

\* Every parse ends; the ones that end without a tree and without a
\* diagnostic have crashed on a pointer that was never written.
C21_TerminatesOrCrashes == <>(Returned \/ Diagnosed \/ Crashed)

\* No parse makes more than three reads that return no bytes.
C21_IdleReads == yp.idle < 4

C21_CutInsideQuote ==
    /\ src.fam = "cut" /\ pc = "exited" /\ yp.err.kind = "UNCLOSED_QUOTE"
    /\ Len(file) = YAML_CHUNK_SIZE


(***************************************************************************)
(* C22: number-to-key fallback.  A run of number characters followed by a *)
(* byte that is no delimiter is lexed as a TOKEN_KEY whose text is the    *)
(* whole source text of the key from its first number character on, and   *)
(* no length error is raised for a key shorter than the key limit.        *)
(***************************************************************************)
KeysLexed == {yp.keys[i] : i \in 1..Len(yp.keys)}
NumberKeyRead ==
    /\ src.fam = "word" /\ pc # "start"
    /\ src.doc.key \in NumberKeys

C22_NumberToKey ==
    NumberKeyRead => (yp.err.kind # "KEY_TOO_LONG" /\ src.doc.key \in KeysLexed)

\* What the lexer does: every such key ends in KEY_TOO_LONG, where it is read.
C22_NumberKeyTooLong ==
    NumberKeyRead =>
        /\ pc = "exited" /\ yp.err.kind = "KEY_TOO_LONG"
        /\ src.doc.key \notin KeysLexed
        /\ yp.ilubsm = SubSeq(src.doc.key, 1, Len(yp.ilubsm))
        /\ yp.raised[1].pos = Len(src.doc.head) + Len(yp.ilubsm)
        /\ ~is_number_parseable(src.doc.key[Len(yp.ilubsm) + 1])

C22_ThirdAfterLine ==
    /\ NumberKeyRead /\ pc = "exited"
    /\ src.doc.key = <<"3", "r", "d">> /\ Len(yp.heap) = 2


(***************************************************************************)
(* C23: boolean-to-key fallback.  A bare word that starts with t or f and *)
(* is not exactly true or false followed by a delimiter is lexed as a     *)
(* TOKEN_KEY whose text is the whole source text of the key, for a        *)
(* mismatch inside the literal and for a literal followed by more key     *)
(* characters.                                                            *)
(***************************************************************************)
BooleanKeyRead ==
    /\ src.fam = "word" /\ pc # "start"
    /\ src.doc.key \in BooleanKeys
\* The literal the key starts with, or the empty text.
LiteralOf(k) ==
    IF Len(k) >= 4 /\ SubSeq(k, 1, 4) = Pattern("t") THEN Pattern("t")
    ELSE IF Len(k) >= 5 /\ SubSeq(k, 1, 5) = Pattern("f") THEN Pattern("f")
    ELSE <<>>

C23_BooleanToKey == BooleanKeyRead => src.doc.key \in KeysLexed

\* A mismatch inside the literal gives the whole text.
C23_MismatchInsideLiteral ==
    (BooleanKeyRead /\ LiteralOf(src.doc.key) = <<>>) => src.doc.key \in KeysLexed

\* After a whole literal the key starts with as many bytes that were never
\* written as the literal is long.
C23_LiteralNeverWritten ==
    (BooleanKeyRead /\ LiteralOf(src.doc.key) # <<>>) =>
        LET n == Len(LiteralOf(src.doc.key))
        IN  /\ src.doc.key \notin KeysLexed
            /\ [i \in 1..n |-> UNINIT] \o SubSeq(src.doc.key, n + 1, Len(src.doc.key))
                    \in KeysLexed
            /\ "ilubsm_uninit" \in yp.ub

C23_Trueish ==
    /\ BooleanKeyRead /\ pc = "parsed"
    /\ src.doc.key = Pattern("t") \o <<"i", "s", "h">>
    /\ Len(yp.heap[root].entries) = 2

------------------------------------------------------------------------------
\* parse_map meeting a token that is no key

NoKeyRead == src.fam = "nokey" /\ pc \notin {"start", "freed"}
\* The entries of every map of the heap.
EntriesRead ==
    SumSeq([i \in 1..Len(yp.heap) |->
              IF yp.heap[i].kind = "NODE_MAP" THEN Len(yp.heap[i].entries) ELSE 0])
KeyExpected(kind) ==
    /\ pc = "exited"
    /\ yp.err.kind = "UNEXPECTED_TOKEN"
    /\ yp.err.exp = "TOKEN_KEY"
    /\ yp.err.got = kind
    /\ EntriesRead = src.doc.head.entries
StoredKinds == {"TOKEN_STRING", "TOKEN_STRING_LIT", "TOKEN_OPEN_SEQ", "TOKEN_OPEN_MAP"}

(* C24: where parse_map expects a key and the token read is a number, a
   boolean, a string, [ or {, UNEXPECTED_TOKEN expecting a key is raised with
   the kind of that token as the kind found, and the map gets no entry. *)
C24_NonKeyRejected == NoKeyRead => KeyExpected(src.doc.token.kind)

\* It holds of the tokens next_token stores in cur_token, and of every token
\* after a comma, which parse_map takes from next_token's result.
C24_StoredTokenRejected ==
    (NoKeyRead /\ (src.doc.token.kind \in StoredKinds
                      \/ src.doc.head.text[Len(src.doc.head.text)] = " "))
        => KeyExpected(src.doc.token.kind)

\* A number on a line of its own is read as the key before it once more.
C24_NumberTakenAsKey ==
    /\ NoKeyRead /\ pc = "parsed"
    /\ src.doc.token.kind = "TOKEN_NUMBER"
    /\ Len(yp.heap[root].entries) = 2

------------------------------------------------------------------------------
\* The merge key with a literal map, or with no map, as its value

MergeRead == src.fam = "merge" /\ pc \notin {"start", "freed"}
LiteralMerge == MergeRead /\ src.doc.value.kind = "map"
NoMapMerge == MergeRead /\ src.doc.value.kind # "map"
HeadKeys == IF src.doc.head.entries = 1 THEN << <<"a">> >> ELSE <<>>
Merged ==
    /\ pc = "parsed"
    /\ KeyTexts(root) = HeadKeys \o src.doc.value.keys
    /\ \A i \in 1..Len(yp.heap) : yp.heap[i].rcount = 0

(* C25: a merge key with a literal flow map as its value appends the entries
   of that map to the enclosing map in order, whether the enclosing map is
   empty or holds entries and whether it is the top-level map or a flow map;
   no comma is needed before the literal map's first entry, and the appended
   nodes keep rcount 0. *)
C25_LiteralMapMerged == LiteralMerge => Merged

\* It holds where the enclosing map is empty, and for the empty literal map.
C25_MergedIntoEmpty ==
    (LiteralMerge /\ (src.doc.head.entries = 0 \/ src.doc.value.keys = <<>>)) => Merged

\* Where the enclosing map holds an entry, the first key of the literal map
\* is refused for want of a comma.
C25_CommaDemanded ==
    (LiteralMerge /\ src.doc.head.entries > 0 /\ src.doc.value.keys # <<>>) =>
        /\ pc = "exited"
        /\ yp.err.kind = "UNEXPECTED_TOKEN"
        /\ yp.err.exp = "TOKEN_COMMA"
        /\ yp.err.got = "TOKEN_KEY"

C25_TwoMergedIntoFlow ==
    /\ LiteralMerge /\ Merged
    /\ src.doc.head.close # NL
    /\ Len(KeyTexts(root)) = 2

(* C26: a merge key whose value is neither a literal map nor an alias bound
   to a map (a scalar, a list, an alias to a scalar or to a list) raises
   UNEXPECTED_TOKEN, and the enclosing map gets no entry. *)
C26_NoMapRejected ==
    NoMapMerge =>
        /\ pc = "exited"
        /\ yp.err.kind = "UNEXPECTED_TOKEN"
        /\ yp.err.exp = IF src.doc.value.kind = "TOKEN_ALIAS" THEN "map" ELSE "map or map alias"
        /\ EntriesRead = src.doc.head.entries

C26_AliasToList ==
    /\ NoMapMerge /\ pc = "exited"
    /\ src.doc.value.kind = "TOKEN_ALIAS"
    /\ yp.err.got = "NODE_LIST"
    /\ EntriesRead = 1

------------------------------------------------------------------------------
\* try_key: where a key ends

WordRead == src.fam = "word" /\ pc \notin {"start", "freed"}
\* The keys lexed from the document's key text: all but the key of the head.
DocKeysLexed == KeysLexed \ { <<"z">> }
\* t is as long as k and has its colons where k has them.
SameColons(k, t) ==
    /\ Len(t) = Len(k)
    /\ \A i \in 1..Len(k) : (t[i] = CHAR_COLON) <=> (k[i] = CHAR_COLON)

(* C27: a TOKEN_KEY ends at the first colon that is followed by a space or
   by the end of the file, and that colon is not part of the key text; every
   colon followed by another byte is kept in the key text and the lexing of
   the key goes on. *)
C27_KeyEndsAtColon ==
    WordRead =>
        /\ \A t \in DocKeysLexed : SameColons(src.doc.key, t)
        /\ src.doc.key \in ColonKeys => src.doc.key \in DocKeysLexed

C27_ColonsKept ==
    /\ WordRead /\ pc = "parsed"
    /\ src.doc.key = <<"a", CHAR_COLON, CHAR_COLON, "b">>
    /\ src.doc.key \in DocKeysLexed

------------------------------------------------------------------------------
\* try_key: the length of a key

KeyTooLong == pc = "exited" /\ yp.err.kind = "KEY_TOO_LONG"

(* C28: KEY_TOO_LONG is raised if and only if the text of the key being lexed
   reaches STR_ALLOC_SIZE_BASE bytes; a shorter key, whatever it starts with,
   is lexed without a length error. *)
C28_TooLongAtLimit ==
    WordRead => (KeyTooLong <=> Len(src.doc.key) >= STR_ALLOC_SIZE_BASE)

\* It holds of every key that does not begin like a number.
C28_LimitUnlessNumber ==
    (WordRead /\ src.doc.key \notin NumberKeys) =>
        (KeyTooLong <=> Len(src.doc.key) >= STR_ALLOC_SIZE_BASE)

\* A key that begins like a number is too long at any length.
C28_NumberStartTooLong ==
    (WordRead /\ src.doc.key \in NumberKeys) => KeyTooLong

C28_LongestKey ==
    /\ WordRead /\ pc = "parsed"
    /\ src.doc.key = Rep("k", STR_ALLOC_SIZE_BASE - 1)
    /\ src.doc.key \in KeysLexed

------------------------------------------------------------------------------
\* try_string_unesc: a backslash before a quote

EscapeRead == src.fam = "escape" /\ pc \notin {"start", "freed"}
StringTexts ==
    {CStr(yp, yp.heap[i].string) : i \in {j \in 1..Len(yp.heap) : yp.heap[j].kind = "NODE_STRING"}}
\* The places of raw where a backslash stands before a quote.
EscapedQuotes(raw) ==
    {i \in 1..(Len(raw) - 1) : raw[i] = CHAR_BACKSLASH /\ raw[i + 1] = CHAR_QUOTE_DOUBLE}
Unescaped == pc = "parsed" /\ StringTexts = {src.doc.body.text}

(* C29: inside a double-quoted string a backslash-escaped quote does not end
   the string: the scan goes on to the first unescaped quote, and the text of
   the TOKEN_STRING has a single quote character at that place. *)
C29_EscapedQuoteKept == EscapeRead => Unescaped

\* It holds of the strings with no quote after a backslash.
C29_OtherEscapes ==
    (EscapeRead /\ EscapedQuotes(src.doc.body.raw) = {}) => Unescaped

\* The string ends at the first quote, escaped or not: its text is the text
\* up to the backslash, and what follows the quote is lexed as further tokens.
C29_EndsAtFirstQuote ==
    (EscapeRead /\ EscapedQuotes(src.doc.body.raw) # {}) =>
        LET i == CHOOSE k \in EscapedQuotes(src.doc.body.raw) :
                    \A m \in EscapedQuotes(src.doc.body.raw) : k <= m
        IN  /\ pc = "exited"
            /\ StringTexts = {SubSeq(src.doc.body.raw, 1, i)}

C29_RestReadAsKey ==
    /\ EscapeRead /\ pc = "exited"
    /\ src.doc.body.raw = <<"x", CHAR_BACKSLASH, CHAR_QUOTE_DOUBLE, "y">>
    /\ <<"y", CHAR_QUOTE_DOUBLE>> \o NL \in KeysLexed

------------------------------------------------------------------------------
\* The end of the file inside a flow collection

OpenRead == src.fam = "open" /\ pc \notin {"start", "freed"}
UnexpectedEof ==
    /\ pc = "exited"
    /\ yp.err.kind = "UNEXPECTED_TOKEN"
    /\ yp.err.got = "TOKEN_EOF"
\* The last byte of t that is no space and no newline.
LastByte(t) ==
    LET I == {i \in 1..Len(t) : t[i] \notin {CHAR_SPACE, CHAR_NEWLINE}}
    IN  t[CHOOSE i \in I : \A j \in I : j <= i]

(* C30: the end of the file inside an unclosed flow collection raises
   UNEXPECTED_TOKEN: a list not closed by ] reports ] as the token expected
   and a map in braces not closed by } reports }, however many elements were
   read before. *)
C30_ExpectsClose == OpenRead => UnexpectedEof /\ yp.err.exp = src.doc.close

\* UNEXPECTED_TOKEN is raised, with TOKEN_EOF as the token found.  What is
\* expected is the closing token after an element of a list and at the place
\* of a key in a map; after [ or a comma in a list it is a value, and after
\* an entry of a map it is a comma.
C30_ExpectedAtEof ==
    OpenRead =>
        /\ UnexpectedEof
        /\ yp.err.exp =
              IF src.doc.close = "TOKEN_CLOSE_SEQ"
              THEN IF LastByte(src.doc.text) \in {CHAR_OPEN_BRACKET, CHAR_COMMA}
                   THEN "a value" ELSE "TOKEN_CLOSE_SEQ"
              ELSE IF LastByte(src.doc.text) \in {CHAR_OPEN_BRACE, CHAR_COMMA}
                   THEN "TOKEN_CLOSE_MAP" ELSE "TOKEN_COMMA"

C30_CommaAfterEntry ==
    /\ OpenRead /\ UnexpectedEof
    /\ src.doc.close = "TOKEN_CLOSE_MAP" /\ src.doc.items = 2
    /\ yp.err.exp = "TOKEN_COMMA"

------------------------------------------------------------------------------
\* Entries of the top-level map on one line

LineRead == src.fam = "line" /\ pc \notin {"start", "freed"}
SameLine == CHAR_NEWLINE \notin {src.doc.sep[i] : i \in 1..Len(src.doc.sep)}
TwoEntries == pc = "parsed" /\ KeyTexts(root) = << <<"a">>, <<"b">> >>

(* C31: at nesting level zero two entries must be separated by at least one
   newline: two entries on one line with only spaces between them are not
   accepted as two entries of the top-level map. *)
C31_NewlineBetweenEntries == (LineRead /\ SameLine) => ~TwoEntries

\* Whatever separates them, spaces or newlines, both entries are read.
C31_AnySeparator == LineRead => TwoEntries

C31_TwoOnOneLine ==
    /\ LineRead /\ SameLine /\ TwoEntries
    /\ src.doc.value = <<"1">>

------------------------------------------------------------------------------
\* parser_error: the lines around the error

DiagRead == src.fam = "diag" /\ report.called
ErrorLine == src.doc.lens[src.doc.line]

(* C32: the extraction of the context stays within bounds for every error
   position and every line length: the copies of the error line, of the line
   before and of the line after, and the caret span, never write past the
   line buffer, and for an error on the first line of the input no line
   before it is read or printed and no index below zero is computed or used. *)
C32_ContextInBounds ==
    DiagRead =>
        /\ ~report.fault
        /\ report.written < LINE_BUFFER_MAX_LENGTH
        /\ report.lowest >= 0
        /\ src.doc.line = 1 => ~report.prev

\* An error line that is empty or longer than the buffer is not copied at all.
C32_ShortReport ==
    DiagRead =>
        /\ report.short <=> (ErrorLine < 1 \/ ErrorLine > LINE_BUFFER_MAX_LENGTH)
        /\ report.short => report.written = -1 /\ report.lowest = 0

\* In the other reports the search for the line before reads below index
\* zero exactly when the error is on the first line, and the terminator of
\* the copy of an error line that fills the buffer is written past its end.
C32_ReadsBelowOnFirstLine ==
    (DiagRead /\ ~report.short) =>
        /\ report.lowest < 0 <=> src.doc.line = 1
        /\ (ErrorLine = LINE_BUFFER_MAX_LENGTH /\ ~report.fault)
              => report.written >= LINE_BUFFER_MAX_LENGTH
        /\ report.written >= LINE_BUFFER_MAX_LENGTH
              => ErrorLine + DiagLen(src.doc) >= LINE_BUFFER_MAX_LENGTH

\* Bytes in front of the input are printed as the line before the first line.
C32_MemoryPrinted ==
    /\ DiagRead /\ src.doc.line = 1
    /\ report.prev /\ report.lowest = -4

\* For an error after the first line of lines shorter than the buffer the
\* claim holds.
C32_InBoundsAfterFirstLine ==
    (DiagRead /\ src.doc.line > 1 /\ ErrorLine + DiagLen(src.doc) < LINE_BUFFER_MAX_LENGTH) =>
        /\ ~report.fault
        /\ report.written < LINE_BUFFER_MAX_LENGTH
        /\ report.lowest >= 0

(***************************************************************************)
(* C33: the parse result does not depend on where the chunk boundaries     *)
(* fall: parse_yaml returns the same tree, or raises the same error, as    *)
(* when the whole input fits in one chunk; and the top-level map holds its *)
(* first key also when more than one chunk of comments or blank lines      *)
(* precedes the first token, or when reading the first token consumes the  *)
(* last byte of the file.                                                  *)
(***************************************************************************)
\* The tree under node n of parse r: kind, text of a leaf, keys, subtrees.
RECURSIVE Tree(_, _)
Tree(r, n) ==
    IF n = NullNode THEN <<"nullptr", <<>>, <<>>, <<>>>>
    ELSE LET h == r.heap[n]
         IN  <<h.kind,
               IF h.kind = "NODE_STRING" THEN CStr(r, h.string)
               ELSE IF h.kind = "NODE_NUMBER" THEN <<ToString(h.number)>>
               ELSE IF h.kind = "NODE_BOOLEAN" THEN <<ToString(h.boolean)>>
               ELSE <<>>,
               IF h.kind = "NODE_MAP"
               THEN [i \in 1..Len(h.entries) |-> CStr(r, h.entries[i].key)]
               ELSE <<>>,
               [i \in 1..Len(Children(h)) |-> Tree(r, Children(h)[i])]>>

\* What a caller sees of parse r: the error raised, or the tree returned.
Outcome(r) ==
    <<r.err.kind, r.err.exp, r.err.got, IF Ok(r) THEN Tree(r, r.ret) ELSE <<>>>>

\* The parse of the file with a chunk that holds all of it.
OneChunk == parse_chunked(file, junk, Len(file) + 1)

ChunkRead == src.fam = "chunk" /\ pc \in {"parsed", "exited", "hung"}

C33_ChunkIndependent ==
    ChunkRead =>
        /\ Outcome(yp) = Outcome(OneChunk)
        /\ (Ok(yp) /\ yp.heap[root].kind = "NODE_MAP" /\ yp.keys # <<>>) =>
               \E i \in 1..Len(KeyTexts(root)) : KeyTexts(root)[i] = yp.keys[1]

\* The result is that of one chunk when the file ends inside the first
\* chunk, when the first token starts a chunk, and when whole chunks of
\* blank lines precede it.
C33_SameWhenRewindIsBlank ==
    (ChunkRead /\ (\/ Len(file) < YAML_CHUNK_SIZE
                   \/ src.doc.pad = YAML_CHUNK_SIZE
                   \/ (src.doc.pad > YAML_CHUNK_SIZE /\ src.doc.blank))) =>
        Outcome(yp) = Outcome(OneChunk)

\* A first key that ends at the last byte of the file is never stored.
C33_KeyAtEndOfFileLost ==
    (ChunkRead /\ src.doc.body = <<"a", CHAR_COLON>>) =>
        /\ Ok(yp) /\ yp.heap[root].kind = "NODE_MAP" /\ KeyTexts(root) = <<>>
        /\ yp.keys = <<<<"a">>>>

\* After more than a chunk of comments the first key holds comment bytes.
C33_CommentInKey ==
    /\ ChunkRead /\ Ok(yp)
    /\ src.doc.pad = YAML_CHUNK_SIZE + 3 /\ ~src.doc.blank
    /\ src.doc.body = K("a") \o <<"1">> \o NL \o K("b") \o <<"2">> \o NL
    /\ KeyTexts(root) = << <<"c", "c", CHAR_NEWLINE, "a">>, <<"b">> >>

(***************************************************************************)
(* C34: braces are balanced in every accepted document: a `}` that no `{`  *)
(* matches, read while the bare top-level map is parsed, raises            *)
(* UNEXPECTED_TOKEN; the top-level map is ended only by the end of the     *)
(* file; and the nesting counter is back at its initial value when         *)
(* parse_yaml returns.                                                     *)
(***************************************************************************)
\* The file starts with the bare map `a: 1` and a `}` on the next line.
UnmatchedClose ==
    src.fam = "trail" /\ src.doc.map = K("a") \o <<"1">> \o NL \o <<"}">>
BareRoot == yp.first.kind = "TOKEN_KEY"

C34_BracesBalanced ==
    pc # "start" =>
        /\ UnmatchedClose => (pc = "exited" /\ yp.err.kind = UNEXPECTED_TOKEN)
        /\ (Returned /\ BareRoot) => yp.last.kind = "TOKEN_EOF"
        /\ Returned => yp.root_mark = 0

\* What the parser does: the `}` ends the bare map as the end of the file
\* does, the file is accepted when nothing follows and rejected at the
\* token after the `}` otherwise; the counter is back at zero after a
\* bare root and is one after a root in brackets or braces.
C34_CloseEndsBareMap ==
    pc # "start" =>
        /\ UnmatchedClose =>
            IF src.doc.more = <<>>
            THEN Returned /\ yp.last.kind = "TOKEN_CLOSE_MAP" /\ KeyTexts(root) = << <<"a">> >>
            ELSE pc = "exited" /\ yp.err.kind = UNEXPECTED_TOKEN /\ yp.err.exp = "TOKEN_EOF"
        /\ (Returned /\ BareRoot) => yp.last.kind \in {"TOKEN_EOF", "TOKEN_CLOSE_MAP"}
        /\ Returned =>
            yp.root_mark = IF yp.first.kind \in {"TOKEN_OPEN_MAP", "TOKEN_OPEN_SEQ"} THEN 1 ELSE 0

\* `a: 1` and `}` on the next line is accepted as the map {a: 1}.
C34_UnmatchedAccepted ==
    /\ UnmatchedClose /\ src.doc.more = <<>> /\ pc = "parsed"
    /\ yp.last.kind = "TOKEN_CLOSE_MAP"

\* A root in braces returns with the counter at one.
C34_CounterLeftAtOne ==
    /\ pc = "parsed" /\ yp.first.kind = "TOKEN_OPEN_MAP" /\ yp.root_mark = 1

(***************************************************************************)
(* C35: the multiple-anchor guard of parse_value raises UNEXPECTED_TOKEN   *)
(* if and only if an anchor token directly follows another anchor token    *)
(* with no value in between; an anchor with a fresh name on a member of a  *)
(* collection that is itself anchored (`b: &n {k: &m 2}`) is accepted, and *)
(* after the parse both names are bound to their nodes.                    *)
(***************************************************************************)
DoubleAnchor == src.fam = "alias" /\ src.doc.base = 7       \* b: &n &m 5
NestedAnchor == src.fam = "alias" /\ src.doc.base = 6       \* b: &n {k: &m 2}
GuardRaised ==
    /\ pc = "exited" /\ yp.err.kind = UNEXPECTED_TOKEN
    /\ yp.err.exp = "a value" /\ yp.err.got = "TOKEN_ANCHOR"
\* A lookup of the name in the alias table finds the node its anchor bound.
Bound(name) ==
    LET f == parse_alias(yp, name)
    IN  Ok(f) /\ f.ret # NullNode /\ f.ret = BoundTo(yp.binds, name)

C35_GuardOnDoubleAnchorOnly ==
    pc # "start" =>
        /\ GuardRaised <=> DoubleAnchor
        /\ (NestedAnchor /\ src.doc.uses = <<>>) =>
               Returned /\ Bound(<<"n">>) /\ Bound(<<"m">>)

\* What the guard does: inside the value of an anchor it reads the slot
\* aliases.len - 1, which was never written, and raises when that memory
\* holds a null pointer, for the nested anchor as for the double anchor;
\* when the file is accepted the binding of m is lost unless a later line
\* binds m again.
C35_GuardReadsUnwrittenSlot ==
    pc # "start" =>
        /\ GuardRaised <=> ((DoubleAnchor \/ NestedAnchor) /\ junk = "null")
        /\ (DoubleAnchor \/ NestedAnchor) => "alias_slot_uninit" \in yp.ub
        /\ ((DoubleAnchor \/ NestedAnchor) /\ Returned /\ ~Uses(9)) => ~Bound(<<"m">>)

\* `b: &n &m 5` is accepted when the unwritten slot is not null.
C35_DoubleAnchorAccepted == DoubleAnchor /\ pc = "parsed" /\ junk = "wild"

\* `b: &n {k: &m 2}` is rejected when the unwritten slot is null.
C35_NestedAnchorRejected == NestedAnchor /\ GuardRaised /\ junk = "null"

(***************************************************************************)
(* C36: reference-count accounting is exact at the end of every successful *)
(* parse: for every live node n, n.rcount + 1 equals the number of         *)
(* map-entry and list-item slots that hold n, the root counted as held     *)
(* once by the caller.                                                     *)
(***************************************************************************)
\* The slots (parent, index) of the live nodes that hold node t.
Holders(t) ==
    {x \in UNION {{<<n, i>> : i \in 1..Len(Kids(n))} : n \in Nodes} : Kids(x[1])[x[2]] = t}
HeldBy(t) == Cardinality(Holders(t)) + (IF t = root THEN 1 ELSE 0)

\* A count held as a negative integer is 2^31 or more as an unsigned int,
\* above every number of slots; -1 is 0xFFFFFFFF.
Exact(n) == yp.heap[n].rcount >= 0 /\ yp.heap[n].rcount + 1 = HeldBy(n)
AliasMergesOnly == \A i \in 1..Len(yp.merges) : yp.merges[i].viaAlias

C36_RcountExact ==
    pc = "parsed" => \A n \in Nodes : Exact(n)

\* The count is exact in every parse that merged maps through aliases only.
C36_ExactButLiteralMerge ==
    (pc = "parsed" /\ AliasMergesOnly) => \A n \in Nodes : Exact(n)

\* The map of `<<: *{...}` is held by no slot and its count has wrapped;
\* its entries are held twice and were not counted.
C36_LiteralMergeMiscounted ==
    pc = "parsed" =>
        \A i \in 1..Len(yp.merges) :
            ~yp.merges[i].viaAlias =>
                LET m == yp.merges[i].src
                IN  /\ HeldBy(m) = 0 /\ yp.heap[m].rcount = -1
                    /\ \A k \in 1..Len(Kids(m)) :
                           HeldBy(Kids(m)[k]) = 2 /\ yp.heap[Kids(m)[k]].rcount = 0

\* A map merged through an alias and aliased once more, counted exactly.
C36_SharedCountedExactly ==
    /\ pc = "parsed" /\ AliasMergesOnly /\ yp.merges # <<>>
    /\ \E n \in Nodes : HeldBy(n) = 3
    /\ \A n \in Nodes : Exact(n)

\* The parse of `<<: *{k: 1}` returned with the count of the map wrapped.
C36_WrappedCount ==
    /\ pc = "parsed" /\ ~AliasMergesOnly
    /\ \E n \in Nodes : HeldBy(n) = 0 /\ yp.heap[n].rcount = -1

(***************************************************************************)
(* C37: the lexer's scratch buffer ilubsm is never written at an index     *)
(* greater than or equal to its capacity: the scanner of single-quoted     *)
(* literals and the scanner of anchor and alias names flush the buffer     *)
(* before the write that would exceed it, for token texts of every length. *)
(***************************************************************************)
\* The documents `a: '<n bytes>'` and `a: &<n bytes> 1 / b: *<n bytes>` of
\* the long family, and the length n of their token text.
LiteralDoc == src.fam = "long" /\ Len(file) > 3 /\ file[4] = CHAR_QUOTE_SINGLE
AnchorDoc == src.fam = "long" /\ Len(file) > 3 /\ file[4] = CHAR_AMPERSAND
TextLen == IF LiteralDoc THEN Len(file) - 6 ELSE (Len(file) - 12) \div 2
WrittenPast == "ilubsm_overflow" \in yp.ub

C37_ScratchWithinCapacity ==
    (pc # "start" /\ (LiteralDoc \/ AnchorDoc)) => ~WrittenPast

\* The flush is made once len is above the capacity: a text of more than
\* STR_ALLOC_SIZE_BASE bytes writes ilubsm[STR_ALLOC_SIZE_BASE], and no
\* shorter text writes past the buffer.
C37_PastCapacityWhenLonger ==
    (pc # "start" /\ (LiteralDoc \/ AnchorDoc)) =>
        (WrittenPast <=> TextLen > STR_ALLOC_SIZE_BASE)

\* A literal of exactly the capacity stays inside the buffer.
C37_LiteralOfCapacity ==
    /\ pc = "parsed" /\ LiteralDoc /\ TextLen = STR_ALLOC_SIZE_BASE /\ ~WrittenPast

\* An anchor name of capacity + 1 bytes is written one past the buffer.
C37_NameOnePast ==
    /\ pc # "start" /\ AnchorDoc /\ TextLen = STR_ALLOC_SIZE_BASE + 1 /\ WrittenPast

(***************************************************************************)
(* C38: the separator-stripping loop of parse_number stays within bounds   *)
(* for every number token of length L >= 1: it reads only the bytes        *)
(* value[0..L] of the token (text and terminator), starting with the first *)
(* character, and writes at most L bytes into its scratch buffer of L      *)
(* bytes.                                                                  *)
(***************************************************************************)
C38_CopyWithinBounds ==
    \A k \in 1..Len(yp.copies) :
        LET c == yp.copies[k]
        IN  c.length >= 1 =>
                /\ c.first = 0 /\ c.last <= c.length
                /\ c.writes <= c.length

\* What the loop does: it starts at value[1], so that the first character
\* is neither tested nor copied, and ends at value[L + 1], the byte behind
\* the terminator; no number token holds a separator, and with the byte
\* behind the terminator the loop writes L + 1 bytes.
C38_CopyShiftedByOne ==
    \A k \in 1..Len(yp.copies) :
        LET c == yp.copies[k]
        IN  /\ c.length = Len(c.text) /\ c.length >= 1
            /\ "_" \notin {c.text[i] : i \in 1..Len(c.text)}
            /\ c.first = 1 /\ c.last = c.length + 1
            /\ c.writes = c.length + 1

\* A number without separators was copied: L + 1 writes into L bytes.
C38_OnePastBuffer ==
    /\ pc = "parsed" /\ src.fam = "num"
    /\ \E k \in 1..Len(yp.copies) :
          yp.copies[k].length >= 2 /\ yp.copies[k].writes = yp.copies[k].length + 1

==============================================================================
